---- MODULE Spec2Model ----
(***************************************************************************)
(* Email scheduling assistant: the inbound webhook handler (POST), the     *)
(* outbound helper sendSchedulingEmail and the nudge sweep (GET), over the *)
(* three tables scheduling_sessions, session_messages and                  *)
(* discarded_agent_emails.                                                 *)
(***************************************************************************)
EXTENDS Integers, Sequences, FiniteSets, TLC

(***************************************************************************)
(* Bounds of the model.                                                    *)
(***************************************************************************)
\* inbound deliveries handled in one behaviour of Spec
MaxDeliveries == 2
\* inbound deliveries handled in one behaviour of the longer scenarios
MaxThread == 3
\* requests handled in one behaviour of SpecNudge
MaxRequests == 1
\* nudge sweeps started in one behaviour
MaxSweeps == 3
\* minutes the clock may advance
MaxTime == 6

(***************************************************************************)
(* Email addresses: local part, "+tag" (empty when absent) and domain.     *)
(***************************************************************************)
Addr(l, t, d) == [l |-> l, t |-> t, d |-> d]

NoAddr == Addr("", "", "")

\* process.env.POSTMARK_SENDER_ADDRESS, lower-cased by the handler
agentEmail == Addr("amy", "", "sched.io")

LowerStr(s) ==
  CASE s = "Alice" -> "alice"
    [] s = "Amy" -> "amy"
    [] s = "Olivia" -> "olivia"
    [] OTHER -> s

toLowerCase(a) == [l |-> LowerStr(a.l), t |-> LowerStr(a.t), d |-> LowerStr(a.d)]

isAgentBase(email) == toLowerCase(email) = agentEmail

\* lcEmail.startsWith(agentBase + '+') && lcEmail.endsWith('@' + agentDomain)
isAgentHashed(email) ==
  LET lc == toLowerCase(email) IN
  /\ lc.l = agentEmail.l
  /\ lc.t # ""
  /\ lc.d = agentEmail.d

(***************************************************************************)
(* Message identifiers and the headers that carry them.  An identifier is  *)
(* the text "loc" or "loc@dom"; a header value is the identifier with or   *)
(* without angle brackets, or is absent.                                   *)
(***************************************************************************)
MsgId(loc, dom) == [loc |-> loc, dom |-> dom]

NoId == MsgId("", "")

Hdr(br, loc, dom) == [present |-> TRUE, br |-> br, loc |-> loc, dom |-> dom]

NoHdr == [present |-> FALSE, br |-> FALSE, loc |-> "", dom |-> ""]

\* rawMessageIdHeader?.match(/<(.+)>/)?.[1] || messageId || `missing-message-id-...`
actualMessageIdHeaderValue(p) ==
  IF p.mid.present /\ p.mid.br /\ p.mid.loc # ""
  THEN MsgId(p.mid.loc, p.mid.dom)
  ELSE IF p.pmid # "" THEN MsgId(p.pmid, "")
  ELSE MsgId("missing-message-id", "")

\* inReplyToHeaderRaw.replace(/[<>]/g, '').split('@')[0]
inReplyToClean(h) == MsgId(h.loc, "")

(***************************************************************************)
(* Session identifiers (gen_random_uuid) and provider message ids.         *)
(***************************************************************************)
SessionIds ==
  << "sess-00000001", "sess-00000002", "sess-00000003", "sess-00000004",
     "sess-00000005", "sess-00000006" >>

OutIds ==
  << "out-01", "out-02", "out-03", "out-04", "out-05", "out-06", "out-07",
     "out-08", "out-09", "out-10", "out-11", "out-12", "out-13", "out-14",
     "out-15", "out-16", "out-17", "out-18", "out-19", "out-20" >>

NoSession == ""

NoTime == -1

VARIABLES
  sessions,     \* table scheduling_sessions, in order of insertion
  messages,     \* table session_messages, in order of creation
  discarded,    \* table discarded_agent_emails
  sessionStatusDefault, \* value the store gives the column session_status on insert
  now,          \* the clock, in minutes
  outCount,     \* emails accepted by the provider so far
  run,          \* the webhook handler's runs: position and local variables
  sweep,        \* the nudge sweep: position and local variables
  delivered,    \* inbound deliveries so far
  sweeps,       \* sweeps started so far
  log           \* completed runs and sweeps, with what each did

vars ==
  << sessions, messages, discarded, sessionStatusDefault, now, outCount, run,
     sweep, delivered, sweeps, log >>


(***************************************************************************)
(* Inbound payloads and decisions of the decision engine.                  *)
(***************************************************************************)
Payload(from, hash, mid, pmid, irt, to, cc, body) ==
  [ from |-> from,   \* FromFull.Email
    hash |-> hash,   \* MailboxHash, "" when absent
    mid  |-> mid,    \* header Message-ID
    pmid |-> pmid,   \* MessageID given by the provider
    irt  |-> irt,    \* header In-Reply-To
    to   |-> to,     \* ToFull addresses
    cc   |-> cc,     \* CcFull addresses
    body |-> body,   \* addresses listed in the body's "Participants:" block
    refs |-> <<>> ]  \* header References: the ids it lists, none when absent

withReferences(p, refs) == [p EXCEPT !.refs = refs]

NoPayload == Payload(NoAddr, "", NoHdr, "", NoHdr, <<>>, <<>>, <<>>)

\* the object generateObject returns; failed: the call threw
Decision(step, recipients, body) ==
  [ next_step |-> step, recipients |-> recipients, email_body |-> body,
    failed |-> FALSE ]

NoDecision == Decision("", <<>>, FALSE)

DecisionFailure == [NoDecision EXCEPT !.failed = TRUE]

NextSteps ==
  { "request_clarification", "ask_participant_availability",
    "propose_time_to_organizer", "propose_time_to_participant",
    "send_final_confirmation", "no_action_needed", "error_cannot_schedule" }

(***************************************************************************)
(* Sequence helpers.                                                       *)
(***************************************************************************)
Range(s) == { s[i] : i \in DOMAIN s }

\* [...new Set(list)]: first occurrences, in order
Dedup(s) ==
  LET F[i \in 0..Len(s)] ==
        IF i = 0 THEN <<>>
        ELSE IF \E j \in 1..(i - 1) : s[j] = s[i] THEN F[i - 1]
        ELSE Append(F[i - 1], s[i])
  IN F[Len(s)]

(***************************************************************************)
(* Loop guard and session resolution.                                      *)
(***************************************************************************)
\* variant: the guard without its length test
loopGuardDiscardsNoHashOnly(p) == toLowerCase(p.from) = agentEmail /\ p.hash = ""

\* senderEmail.toLowerCase() === agentEmail && (!mailboxHash || mailboxHash.length < 10)
loopGuardDiscards(p) ==
  /\ toLowerCase(p.from) = agentEmail
  /\ (p.hash = "" \/ Len(p.hash) < 10)

\* variant: a longer minimum than a session identifier has
mailboxHashLooksValidOver13(h) == h # "" /\ Len(h) > 13

\* mailboxHash && mailboxHash.length > 10
mailboxHashLooksValid(h) == h # "" /\ Len(h) > 10

sessionExists(sid) == \E i \in DOMAIN sessions : sessions[i].session_id = sid

sessionIndex(sid) == CHOOSE i \in DOMAIN sessions : sessions[i].session_id = sid

\* .eq('session_id', mailboxHash).maybeSingle()
lookupByMailboxHash(h) ==
  IF mailboxHashLooksValid(h) /\ sessionExists(h) THEN h ELSE NoSession

\* variant: no lookup by In-Reply-To
lookupByInReplyToSkipped(irt) == NoSession

\* .eq('postmark_message_id', inReplyToClean).maybeSingle(): one row or nothing
lookupByInReplyTo(irt) ==
  IF ~irt.present THEN NoSession
  ELSE LET rows == { i \in DOMAIN messages :
                       messages[i].postmark_message_id = inReplyToClean(irt) }
       IN IF Cardinality(rows) = 1
          THEN messages[CHOOSE i \in rows : TRUE].session_id
          ELSE NoSession

\* variant: the routing-token form of the assistant's address kept as a participant
newSessionParticipantsKeepingToken(p) ==
  LET fromToCc ==
        SelectSeq(Dedup(p.to \o p.cc),
                  LAMBDA e : toLowerCase(e) # toLowerCase(p.from) /\ ~isAgentBase(e))
  IN IF Len(fromToCc) = 0
     THEN SelectSeq(p.body,
                    LAMBDA e : /\ toLowerCase(e) # toLowerCase(p.from)
                               /\ toLowerCase(e) # agentEmail)
     ELSE fromToCc

\* participants of a new session: To and Cc, else the body's "Participants:" block
newSessionParticipants(p) ==
  LET potentialParticipants == p.to \o p.cc
      fromToCc ==
        SelectSeq(Dedup(potentialParticipants),
                  LAMBDA e : /\ toLowerCase(e) # toLowerCase(p.from)
                             /\ ~isAgentBase(e)
                             /\ ~isAgentHashed(e))
  IN IF Len(fromToCc) = 0
     THEN SelectSeq(p.body,
                    LAMBDA e : /\ toLowerCase(e) # toLowerCase(p.from)
                               /\ toLowerCase(e) # agentEmail)
     ELSE fromToCc

initialParticipantStatus(parts) ==
  [ i \in DOMAIN parts |->
      [ email |-> parts[i], status |-> "pending", last_request_sent_at |-> NoTime ] ]

newSessionRow(p) ==
  [ session_id |-> SessionIds[Len(sessions) + 1],
    organizer_email |-> p.from,
    status |-> "pending_participant_response",
    session_status |-> sessionStatusDefault,
    participant_status_details |-> initialParticipantStatus(newSessionParticipants(p)) ]

(***************************************************************************)
(* A run of the webhook handler: its position and local variables.  The    *)
(* record is appended to the log when the run returns.                     *)
(***************************************************************************)
\* what the tables held when a run or a sweep started (kept for the record only)
Snapshot ==
  [ sessions |-> sessions, nMessages |-> Len(messages),
    nDiscarded |-> Len(discarded), outCount |-> outCount, returned |-> Len(log) ]

NoSnapshot ==
  [ sessions |-> <<>>, nMessages |-> 0, nDiscarded |-> 0, outCount |-> 0,
    returned |-> 0 ]

IdleRun ==
  [ kind |-> "webhook", pc |-> "idle", ack |-> "", code |-> "", body |-> "object",
    pre |-> NoSnapshot, p |-> NoPayload,
    sessionId |-> NoSession, via |-> "", actualId |-> NoId,
    sessionOrganizer |-> NoAddr, status0 |-> "", pd0 |-> <<>>,
    participantDetails |-> <<>>, incomingMessageType |-> "",
    participantFound |-> FALSE, gate |-> "",
    aiCalled |-> FALSE, aiDecision |-> NoDecision, finalRecipients |-> <<>>,
    sendAttempted |-> FALSE, emails |-> <<>>, outgoingMessageId |-> NoId,
    aiSaved |-> FALSE, finalStatus |-> "" ]

\* return NextResponse.json(..., { status: 200 })
Complete(r, rec, ack) ==
  /\ run' = [run EXCEPT ![r] = IdleRun]
  /\ log' = Append(log, [rec EXCEPT !.pc = "done", !.ack = ack, !.code = "200"])

\* an exception no try block of the handler encloses: the handler returns nothing
Uncaught(r, rec) ==
  /\ run' = [run EXCEPT ![r] = IdleRun]
  /\ log' = Append(log, [rec EXCEPT !.pc = "done", !.code = "uncaught exception"])

\* the request bodies the handler gives up on before the loop guard
\*   "unparseable": req.json() throws
\*   "null": the JSON literal null, which req.json() returns as it is
\*   "no sender": an object without FromFull.Email and From
\*   "nameless header": an object with a sender whose Headers hold an entry without Name
IgnoredBodies == { "unparseable", "null", "no sender", "nameless header" }

\* an awaited call inside the try block rejects: the catch block acknowledges
Throw(r) ==
  /\ run[r].pc \in {"fetch", "track", "act", "final"}
  /\ Complete(r, run[r], "Internal Server Error")
  /\ UNCHANGED << sessions, messages, discarded, sessionStatusDefault, now, outCount,
                  sweep, delivered, sweeps >>

\* parse, loop guard, session identification, session creation
\* ok: whether the store answers this step's calls without an error
ReceiveStep(r, payloads, limit, ok) ==
  /\ run[r].pc = "idle"
  /\ delivered < limit
  /\ delivered' = delivered + 1
  /\ \E p \in payloads :
       LET rec0   == [IdleRun EXCEPT !.p = p, !.pre = Snapshot,
                                        !.actualId = actualMessageIdHeaderValue(p)]
           byHash == IF ok THEN lookupByMailboxHash(p.hash) ELSE NoSession
           byIrt  == IF ok /\ byHash = NoSession THEN lookupByInReplyTo(p.irt) ELSE NoSession
       IN IF loopGuardDiscards(p)
          THEN /\ discarded' = IF ok
                                THEN Append(discarded, [postmark_message_id |-> p.pmid, from_email |-> p.from])
                                ELSE discarded
               /\ Complete(r, rec0, "discarded_agent_loop_detected")
               /\ UNCHANGED sessions
          ELSE IF byHash # NoSession
          THEN /\ run' = [run EXCEPT ![r] = [rec0 EXCEPT !.pc = "fetch", !.sessionId = byHash, !.via = "hash"]]
               /\ UNCHANGED << sessions, discarded, log >>
          ELSE IF byIrt # NoSession
          THEN /\ run' = [run EXCEPT ![r] = [rec0 EXCEPT !.pc = "fetch", !.sessionId = byIrt, !.via = "irt"]]
               /\ UNCHANGED << sessions, discarded, log >>
          ELSE IF ~ok
          THEN /\ Complete(r, rec0, "Failed to create scheduling session")
               /\ UNCHANGED << sessions, discarded >>
          ELSE /\ sessions' = Append(sessions, newSessionRow(p))
               /\ run' = [run EXCEPT ![r] = [rec0 EXCEPT !.pc = "fetch", !.sessionId = newSessionRow(p).session_id, !.via = "new"]]
               /\ UNCHANGED << discarded, log >>
  /\ UNCHANGED << messages, sessionStatusDefault, now, outCount, sweep, sweeps >>

Receive(r, payloads, limit) == ReceiveStep(r, payloads, limit, TRUE)

ReceiveStoreError(r, payloads, limit) == ReceiveStep(r, payloads, limit, FALSE)

\* variant: no test of the body or of the sender, the message handled as it is
IgnoreUnchecked(r, bodies, limit) == ReceiveStep(r, {NoPayload}, limit, TRUE)

\* the bodies the handler answers without going further
Ignore(r, bodies, limit) ==
  /\ run[r].pc = "idle"
  /\ delivered < limit
  /\ delivered' = delivered + 1
  /\ \E b \in bodies :
       LET rec0 == [IdleRun EXCEPT !.body = b, !.pre = Snapshot]
       IN CASE b = "unparseable" -> Complete(r, rec0, "Invalid JSON payload")
            [] b = "no sender" -> Complete(r, rec0, "ignored_missing_sender")
            [] OTHER -> Uncaught(r, rec0)
  /\ UNCHANGED << sessions, messages, discarded, sessionStatusDefault, now, outCount,
                  sweep, sweeps >>

(***************************************************************************)
(* sendSchedulingEmail: one provider call per recipient, or one call for   *)
(* all when sendAsGroup.  oks[k] is the outcome of the k-th provider call; *)
(* base is the number of emails the provider accepted before.              *)
(***************************************************************************)
\* variant: the Reply-To without the session token
replyToAddressBare(sessionId) == Addr(agentEmail.l, "", agentEmail.d)

replyToAddress(sessionId) == Addr(agentEmail.l, sessionId, agentEmail.d)

sendCalls(to, sendAsGroup) == IF Len(to) > 1 /\ sendAsGroup THEN 1 ELSE Len(to)

\* The id wrapped in angle brackets unless it already has them; a message id
\* of the model is kept without them.
triggerIdFormatted(triggeringMessageId) ==
  Hdr(TRUE, triggeringMessageId.loc, triggeringMessageId.dom)

includes(refs, id) == \E i \in DOMAIN refs : refs[i] = id

referencesAlwaysAppending(triggeringReferencesHeader, triggeringMessageId) ==
  Append(triggeringReferencesHeader, triggerIdFormatted(triggeringMessageId))

\* The References header: the inherited list, then the triggering id unless
\* the list already holds it.
references(triggeringReferencesHeader, triggeringMessageId) ==
  IF includes(triggeringReferencesHeader, triggerIdFormatted(triggeringMessageId))
  THEN triggeringReferencesHeader
  ELSE Append(triggeringReferencesHeader, triggerIdFormatted(triggeringMessageId))

sendSchedulingEmail(to, sessionId, triggeringMessageId, triggeringReferencesHeader, sendAsGroup, oks, base) ==
  LET n == Len(to)
      accepted[k \in 0..n] ==
        IF k = 0 THEN 0 ELSE accepted[k - 1] + (IF oks[k] THEN 1 ELSE 0)
      idOf(k) == IF oks[k] THEN MsgId(OutIds[base + accepted[k]], "") ELSE NoId
      email(toField, k) ==
        [ to |-> toField,
          replyTo |-> replyToAddress(sessionId),
          inReplyTo |-> triggerIdFormatted(triggeringMessageId),
          references |-> references(triggeringReferencesHeader, triggeringMessageId),
          ok |-> oks[k],
          messageId |-> idOf(k) ]
  IN IF n = 0 THEN [emails |-> <<>>, messageId |-> NoId]
     ELSE IF n > 1 /\ sendAsGroup
     THEN [emails |-> << email(to, 1) >>, messageId |-> idOf(1)]
     ELSE IF ~oks[1]
     THEN [emails |-> << email(<< to[1] >>, 1) >>, messageId |-> NoId]
     ELSE [emails |-> [k \in 1..n |-> email(<< to[k] >>, k)], messageId |-> idOf(1)]

sentCount(emails) == Cardinality({ k \in DOMAIN emails : emails[k].ok })

(***************************************************************************)
(* The webhook handler after session identification.                       *)
(***************************************************************************)
updateSession(sid, field, value) ==
  [sessions EXCEPT ![sessionIndex(sid)] = [@ EXCEPT ![field] = value]]

\* read of the session row, message type, insert of the inbound message
FetchStep(r, ok) ==
  /\ run[r].pc = "fetch"
  /\ LET me  == run[r]
         row == sessions[sessionIndex(me.sessionId)]
         incomingMessageType ==
           IF me.p.from = row.organizer_email
           THEN "human_organizer" ELSE "human_participant"
     IN IF ~ok
        THEN /\ Complete(r, me, "Failed to fetch session state")
             /\ UNCHANGED messages
        ELSE /\ messages' = Append(messages,
                  [ session_id |-> me.sessionId,
                    postmark_message_id |-> me.actualId,
                    sender_email |-> me.p.from,
                    recipient_email |-> <<>>,
                    in_reply_to_message_id |->
                      IF me.p.irt.present THEN inReplyToClean(me.p.irt) ELSE NoId,
                    message_type |-> incomingMessageType ])
             /\ run' = [run EXCEPT ![r] =
                  [me EXCEPT !.pc = IF incomingMessageType = "human_participant"
                                    THEN "track" ELSE "act",
                             !.sessionOrganizer = row.organizer_email,
                             !.status0 = row.status,
                             !.pd0 = row.participant_status_details,
                             !.participantDetails = row.participant_status_details,
                             !.incomingMessageType = incomingMessageType]]
             /\ UNCHANGED log
  /\ UNCHANGED << sessions, discarded, sessionStatusDefault, now, outCount,
                  sweep, delivered, sweeps >>

Fetch(r) == FetchStep(r, TRUE)

FetchStoreError(r) == FetchStep(r, FALSE)

\* variant: the sender's entry left as it is
markNothingReceived(details, senderEmail) == details

markReceived(details, senderEmail) ==
  [ i \in DOMAIN details |->
      IF toLowerCase(details[i].email) = toLowerCase(senderEmail)
      THEN [details[i] EXCEPT !.status = "received"]
      ELSE details[i] ]

\* variant: some() in place of every()
someParticipantReplied(details) ==
  \E i \in DOMAIN details : details[i].status = "received"

\* variant: the gate looks at the first participant only
firstParticipantReplied(details) ==
  Len(details) = 0 \/ details[1].status = "received"

allParticipantsReplied(details) ==
  \A i \in DOMAIN details : details[i].status = "received"

\* a message that is not the organizer's: mark the sender, write, gate
TrackStep(r, ok) ==
  /\ run[r].pc = "track"
  /\ LET me == run[r]
         details == markReceived(me.participantDetails, me.p.from)
         found == \E i \in DOMAIN me.participantDetails :
                    toLowerCase(me.participantDetails[i].email) = toLowerCase(me.p.from)
         written == IF ok
                    THEN updateSession(me.sessionId, "participant_status_details", details)
                    ELSE sessions
         rec == [me EXCEPT !.participantDetails = details, !.participantFound = found]
     IN IF ~allParticipantsReplied(details)
        THEN /\ sessions' = written
             /\ Complete(r, [rec EXCEPT !.gate = "closed"], "success_waiting_for_others")
        ELSE /\ sessions' = IF ok
                             THEN [written EXCEPT ![sessionIndex(me.sessionId)] =
                                     [@ EXCEPT !.status = "pending_organizer_confirmation"]]
                             ELSE sessions
             /\ run' = [run EXCEPT ![r] = [rec EXCEPT !.pc = "act", !.gate = "open"]]
             /\ UNCHANGED log
  /\ UNCHANGED << messages, discarded, sessionStatusDefault, now, outCount,
                  sweep, delivered, sweeps >>

Track(r) == TrackStep(r, TRUE)

TrackStoreError(r) == TrackStep(r, FALSE)

\* variant: the decision engine's recipients taken as they are
recipientsForStepAsSuggested(d, sessionOrganizer, details) ==
  IF d.next_step \in {"ask_participant_availability", "propose_time_to_participant"}
  THEN d.recipients
  ELSE IF d.next_step \in {"propose_time_to_organizer", "request_clarification"}
  THEN << sessionOrganizer >>
  ELSE IF d.next_step = "send_final_confirmation"
  THEN Dedup(<< sessionOrganizer >> \o [ i \in DOMAIN details |-> details[i].email ])
  ELSE <<>>

\* recipients by next_step, before the safeguard
recipientsForStep(d, sessionOrganizer, details) ==
  IF d.next_step \in {"ask_participant_availability", "propose_time_to_participant"}
  THEN SelectSeq(d.recipients,
                 LAMBDA e : toLowerCase(e) # toLowerCase(sessionOrganizer))
  ELSE IF d.next_step \in {"propose_time_to_organizer", "request_clarification"}
  THEN << sessionOrganizer >>
  ELSE IF d.next_step = "send_final_confirmation"
  THEN Dedup(<< sessionOrganizer >> \o [ i \in DOMAIN details |-> details[i].email ])
  ELSE <<>>

\* variant: the safeguard without the bare-address test
withoutHashedAgent(recipients) ==
  SelectSeq(recipients, LAMBDA e : ~isAgentHashed(e))

\* Safeguard: Filter out agent's own addresses
withoutAgent(recipients) ==
  SelectSeq(recipients, LAMBDA e : ~isAgentBase(e) /\ ~isAgentHashed(e))

\* last_request_sent_at of the participants being contacted
stampRequests(details, recipients, t) ==
  [ i \in DOMAIN details |->
      IF details[i].email \in Range(recipients)
      THEN [details[i] EXCEPT !.last_request_sent_at = t]
      ELSE details[i] ]

\* variant: the assistant message saved whatever the send returned
savesAssistantMessageAlways(outgoingMessageId) == TRUE

\* if (outgoingMessageId): only save if the email was sent
savesAssistantMessage(outgoingMessageId) == outgoingMessageId # NoId

\* decision engine, recipients, request timestamps, send, assistant message
ActStepWith(r, decisions, ok, outcomes) ==
  /\ run[r].pc = "act"
  /\ \E d \in decisions :
       LET me == run[r] IN
       IF d.failed
       THEN /\ Complete(r, [me EXCEPT !.aiCalled = TRUE, !.aiDecision = d],
                        "Internal Server Error")
            /\ UNCHANGED << sessions, messages, outCount >>
       ELSE
         LET byStep == recipientsForStep(d, me.sessionOrganizer, me.participantDetails)
             asking == d.next_step \in {"ask_participant_availability",
                                        "propose_time_to_participant"}
             stamped == stampRequests(me.participantDetails, byStep, now)
             detailsUpdated == asking /\ \E i \in DOMAIN me.participantDetails :
                                 me.participantDetails[i].email \in Range(byStep)
             details == IF detailsUpdated THEN stamped ELSE me.participantDetails
             finalRecipients == withoutAgent(byStep)
             attempt == Len(finalRecipients) > 0 /\ d.email_body
             sendAsGroup == d.next_step = "send_final_confirmation"
         IN \E oks \in [1..(IF attempt THEN sendCalls(finalRecipients, sendAsGroup) ELSE 0)
                         -> outcomes] :
              LET res == IF attempt
                         THEN sendSchedulingEmail(finalRecipients, me.sessionId,
                                me.actualId, me.p.refs, sendAsGroup,
                                [k \in 1..Len(finalRecipients) |->
                                   IF k \in DOMAIN oks THEN oks[k] ELSE FALSE],
                                outCount)
                         ELSE [emails |-> <<>>, messageId |-> NoId]
                  saved == ok /\ savesAssistantMessage(res.messageId)
              IN /\ outCount + Len(finalRecipients) <= Len(OutIds)
                 /\ sessions' = IF ok /\ detailsUpdated
                                THEN updateSession(me.sessionId,
                                       "participant_status_details", stamped)
                                ELSE sessions
                 /\ outCount' = outCount + sentCount(res.emails)
                 /\ messages' =
                      IF saved
                      THEN Append(messages,
                             [ session_id |-> me.sessionId,
                               postmark_message_id |-> res.messageId,
                               sender_email |-> agentEmail,
                               recipient_email |-> finalRecipients,
                               in_reply_to_message_id |-> me.actualId,
                               message_type |-> "ai_agent" ])
                      ELSE messages
                 /\ run' = [run EXCEPT ![r] =
                      [me EXCEPT !.pc = "final", !.aiCalled = TRUE, !.aiDecision = d,
                                 !.participantDetails = details,
                                 !.finalRecipients = finalRecipients,
                                 !.sendAttempted = attempt,
                                 !.emails = res.emails,
                                 !.outgoingMessageId = res.messageId,
                                 !.aiSaved = saved]]
                 /\ UNCHANGED log
  /\ UNCHANGED << discarded, sessionStatusDefault, now, sweep, delivered, sweeps >>

ActStep(r, decisions, ok) == ActStepWith(r, decisions, ok, BOOLEAN)

Act(r, decisions) == ActStep(r, decisions, TRUE)

ActStoreError(r, decisions) == ActStep(r, decisions, FALSE)

\* variant: the status read at the start of the run is written back
nextSessionStatusKeepingCurrent(next_step, current) == current

nextSessionStatus(next_step, current) ==
  CASE next_step \in {"ask_participant_availability", "propose_time_to_participant"}
         -> "pending_participant_response"
    [] next_step \in {"propose_time_to_organizer", "request_clarification"}
         -> "pending_organizer_confirmation"
    [] next_step = "send_final_confirmation" -> "confirmed"
    [] next_step = "error_cannot_schedule" -> "error"
    [] OTHER -> current

\* the final update of the session row, and the acknowledgement
FinalizeStep(r, ok) ==
  /\ run[r].pc = "final"
  /\ LET me == run[r]
         status == nextSessionStatus(me.aiDecision.next_step, me.status0)
     IN /\ sessions' = IF ok THEN updateSession(me.sessionId, "status", status)
                       ELSE sessions
        /\ Complete(r, [me EXCEPT !.finalStatus = status], "success")
  /\ UNCHANGED << messages, discarded, sessionStatusDefault, now, outCount,
                  sweep, delivered, sweeps >>

Finalize(r) == FinalizeStep(r, TRUE)

FinalizeStoreError(r) == FinalizeStep(r, FALSE)

(***************************************************************************)
(* The nudge sweep.                                                        *)
(***************************************************************************)
NUDGE1_THRESHOLD_MINUTES == 1
NUDGE2_THRESHOLD_MINUTES == 2
ESCALATION_THRESHOLD_MINUTES == 3

\* variant: a participant long overdue catches up two stages at once
nudgeNextStatusCatchingUp(status, minutesSinceLastRequest) ==
  IF status = "pending" /\ minutesSinceLastRequest >= NUDGE2_THRESHOLD_MINUTES
  THEN "nudged_2"
  ELSE IF status = "pending" /\ minutesSinceLastRequest >= NUDGE1_THRESHOLD_MINUTES
  THEN "nudged_1"
  ELSE IF status = "nudged_1" /\ minutesSinceLastRequest >= NUDGE2_THRESHOLD_MINUTES
  THEN "nudged_2"
  ELSE IF status = "nudged_2" /\ minutesSinceLastRequest >= ESCALATION_THRESHOLD_MINUTES
  THEN "escalated"
  ELSE status

\* variant: the next stage whatever time has passed
nudgeNextStatusWithoutThreshold(status, minutesSinceLastRequest) ==
  CASE status = "pending" -> "nudged_1"
    [] status = "nudged_1" -> "nudged_2"
    [] status = "nudged_2" -> "escalated"
    [] OTHER -> status

\* nextStatus of one participant, given the minutes since the last request
nudgeNextStatus(status, minutesSinceLastRequest) ==
  IF status = "pending" /\ minutesSinceLastRequest >= NUDGE1_THRESHOLD_MINUTES
  THEN "nudged_1"
  ELSE IF status = "nudged_1" /\ minutesSinceLastRequest >= NUDGE2_THRESHOLD_MINUTES
  THEN "nudged_2"
  ELSE IF status = "nudged_2" /\ minutesSinceLastRequest >= ESCALATION_THRESHOLD_MINUTES
  THEN "escalated"
  ELSE status

nudgeSkips(participant) ==
  participant.status = "received" \/ participant.last_request_sent_at = NoTime

nudgeActs(participant, t0) ==
  /\ ~nudgeSkips(participant)
  /\ nudgeNextStatus(participant.status, t0 - participant.last_request_sent_at)
       # participant.status

\* the loop over the participants of one session read at t0; oks[i] is the
\* outcome of the send for participant i, t the clock at the time of the sends
nudgeSession(session, t0, t, oks, base) ==
  LET details == session.participant_status_details
      n == Len(details)
      step[i \in 0..n] ==
        IF i = 0
        THEN [ details |-> details, emails |-> <<>>, detailsUpdated |-> FALSE,
               sessionEscalated |-> FALSE, accepted |-> 0 ]
        ELSE
          LET prev == step[i - 1]
              participant == details[i]
              nextStatus ==
                nudgeNextStatus(participant.status, t0 - participant.last_request_sent_at)
              isEscalation == nextStatus = "escalated"
              recipient == IF isEscalation THEN session.organizer_email
                           ELSE participant.email
              sent == sendSchedulingEmail(<< recipient >>, session.session_id,
                        MsgId("cron-nudge-" \o session.session_id \o "-" \o participant.email.l,
                              participant.email.d),
                        <<>>, FALSE, << oks[i] >>, base + prev.accepted)
          IN IF ~nudgeActs(participant, t0) THEN prev
             ELSE [ details |->
                      IF sent.messageId # NoId
                      THEN [prev.details EXCEPT ![i] =
                              [participant EXCEPT !.status = nextStatus,
                                                  !.last_request_sent_at = t]]
                      ELSE prev.details,
                    emails |-> prev.emails \o sent.emails,
                    detailsUpdated |-> prev.detailsUpdated \/ sent.messageId # NoId,
                    sessionEscalated |-> prev.sessionEscalated \/ isEscalation,
                    accepted |-> prev.accepted + sentCount(sent.emails) ]
  IN step[n]

IdleSweep ==
  [ kind |-> "nudge", pc |-> "idle", pre |-> NoSnapshot, t0 |-> 0, queue |-> <<>>,
    visits |-> <<>> ]

\* .eq('session_status', 'pending_participant_response')
pendingSessions ==
  SelectSeq(sessions, LAMBDA row : row.session_status = "pending_participant_response")

\* the sweep starts: it reads the clock and the sessions to check
SweepStartUpTo(limit) ==
  /\ sweep.pc = "idle"
  /\ sweeps < limit
  /\ sweeps' = sweeps + 1
  /\ IF Len(pendingSessions) = 0
     THEN /\ log' = Append(log, [IdleSweep EXCEPT !.pc = "done", !.t0 = now,
                                                  !.pre = Snapshot])
          /\ UNCHANGED sweep
     ELSE /\ sweep' = [IdleSweep EXCEPT !.pc = "process", !.t0 = now,
                                        !.pre = Snapshot,
                                        !.queue = pendingSessions]
          /\ UNCHANGED log
  /\ UNCHANGED << sessions, messages, discarded, sessionStatusDefault, now,
                  outCount, run, delivered >>

SweepStart == SweepStartUpTo(MaxSweeps)

\* the sweep handles the next session it read: reminders, then one update
\* outcomes: the outcomes the provider may give to a send
SweepSessionWith(outcomes) ==
  /\ sweep.pc = "process"
  /\ LET session == Head(sweep.queue)
         n == Len(session.participant_status_details)
     IN \E oks \in [1..n -> outcomes] :
          \* the outcome of a send that is not made is not a choice
          /\ \A i \in 1..n :
               ~nudgeActs(session.participant_status_details[i], sweep.t0) => oks[i]
          /\ outCount + n <= Len(OutIds)
          /\ LET res == nudgeSession(session, sweep.t0, now, oks, outCount)
                 visit == [ session_id |-> session.session_id,
                            before |-> session.participant_status_details,
                            after |-> res.details,
                            emails |-> res.emails,
                            detailsUpdated |-> res.detailsUpdated,
                            sessionEscalated |-> res.sessionEscalated ]
                 rest == Tail(sweep.queue)
                 rec == [sweep EXCEPT !.queue = rest, !.visits = Append(@, visit)]
                 i == sessionIndex(session.session_id)
             IN /\ outCount' = outCount + res.accepted
                /\ sessions' =
                     IF ~res.detailsUpdated THEN sessions
                     ELSE [sessions EXCEPT ![i] =
                            [@ EXCEPT !.participant_status_details = res.details,
                                      !.session_status =
                                         IF res.sessionEscalated
                                         THEN "escalated_to_organizer" ELSE @]]
                /\ IF Len(rest) = 0
                   THEN /\ log' = Append(log, [rec EXCEPT !.pc = "done"])
                        /\ sweep' = IdleSweep
                   ELSE /\ sweep' = rec
                        /\ UNCHANGED log
  /\ UNCHANGED << messages, discarded, sessionStatusDefault, now, run,
                  delivered, sweeps >>

SweepSession == SweepSessionWith(BOOLEAN)

\* a minute passes
TickUpTo(limit) ==
  /\ now < limit
  /\ now' = now + 1
  /\ UNCHANGED << sessions, messages, discarded, sessionStatusDefault, outCount,
                  run, sweep, delivered, sweeps, log >>

Tick == TickUpTo(MaxTime)

(***************************************************************************)
(* Initial state: empty tables, no run in progress.                        *)
(***************************************************************************)
Runs == {1, 2}

\* what the store's schema may give session_status when a row is inserted
\* without it: nothing, or the initial stage
SessionStatusDefaults == { "", "pending_participant_response" }

InitStore ==
  /\ sessions = <<>>
  /\ messages = <<>>
  /\ discarded = <<>>
  /\ now = 0
  /\ outCount = 0
  /\ run = [r \in Runs |-> IdleRun]
  /\ sweep = IdleSweep
  /\ delivered = 0
  /\ sweeps = 0
  /\ log = <<>>

Init == InitStore /\ sessionStatusDefault = ""

InitAnyDefault == InitStore /\ sessionStatusDefault \in SessionStatusDefaults

\* nothing is in progress
Quiet == sweep.pc = "idle" /\ \A r \in Runs : run[r].pc = "idle"

(***************************************************************************)
(* The people of the scenarios.                                            *)
(***************************************************************************)
olivia == Addr("olivia", "", "corp.io")
alice == Addr("alice", "", "corp.io")
bob == Addr("bob", "", "corp.io")
aliceUpper == Addr("Alice", "", "corp.io")
agentHashed == Addr("amy", "sess-00000009", "sched.io")

oliviaUpper == Addr("Olivia", "", "corp.io")
carol == Addr("carol", "", "corp.io")

\* a first message: no routing token, no In-Reply-To
request(from, hash, to, cc, body) ==
  Payload(from, hash, Hdr(TRUE, "req-" \o from.l, "mail.io"), "pm-req-" \o from.l,
          NoHdr, to, cc, body)

\* a reply to an assistant email of session sid: sent to the routing address
reply(from, sid, irt) ==
  Payload(from, sid, Hdr(TRUE, "re-" \o from.l, "mail.io"), "pm-re-" \o from.l,
          irt, << replyToAddress(sid) >>, <<>>, <<>>)

(***************************************************************************)
(* Spec: the workflow, one handler run at a time.                          *)
(***************************************************************************)
FlowPayloads ==
  { request(olivia, "", << alice, bob, agentEmail >>, <<>>, <<>>),
    request(agentEmail, "tenchars10", << alice, bob >>, <<>>, <<>>),
    request(agentEmail, "", << alice >>, <<>>, <<>>),
    request(Addr("Amy", "", "sched.io"), "short", << alice >>, <<>>, <<>>) }
  \cup { reply(from, SessionIds[1], NoHdr) : from \in {alice, bob, aliceUpper, olivia} }

FlowDecisions ==
  { Decision(step, recipients, TRUE) :
      step \in {"ask_participant_availability", "propose_time_to_participant"},
      recipients \in { << alice, bob >>, << agentEmail >>,
                       << olivia, alice, agentHashed >> } }
  \cup { Decision(step, << agentEmail >>, TRUE) : step \in NextSteps }
  \cup { Decision("ask_participant_availability", << alice, bob >>, FALSE),
         Decision("propose_time_to_organizer", << olivia >>, FALSE),
         DecisionFailure }

Next ==
  \/ Quiet /\ Receive(1, FlowPayloads, MaxDeliveries)
  \/ Fetch(1)
  \/ Track(1)
  \/ Act(1, FlowDecisions)
  \/ Finalize(1)

Spec == Init /\ [][Next]_vars

(***************************************************************************)
(* SpecResolve: two sessions, then replies whose routing token and         *)
(* In-Reply-To header name any of them, or nothing.                        *)
(***************************************************************************)
ResolveTokens == { SessionIds[1], SessionIds[2], SessionIds[5] }

ResolveInReplyTo ==
  { NoHdr, Hdr(FALSE, "garbled", "") }
  \cup { Hdr(TRUE, OutIds[n], "mail.sched.io") : n \in 1..2 }

ResolvePayloads ==
  { request(olivia, "", << alice >>, <<>>, <<>>),
    request(bob, "", << alice >>, <<>>, <<>>) }
  \cup { reply(alice, token, irt) : token \in ResolveTokens, irt \in ResolveInReplyTo }
  \cup { reply(agentEmail, SessionIds[1], NoHdr) }

ResolveDecisions ==
  { Decision("ask_participant_availability", << alice >>, TRUE),
    Decision("propose_time_to_organizer", <<>>, TRUE) }

NextResolve ==
  \/ Quiet /\ Receive(1, ResolvePayloads, MaxThread)
  \/ Fetch(1)
  \/ Track(1)
  \/ Act(1, ResolveDecisions)
  \/ Finalize(1)

SpecResolve == Init /\ [][NextResolve]_vars

(***************************************************************************)
(* SpecGate: a request, then the participants' replies, one run at a time. *)
(***************************************************************************)
GatePayloads ==
  { request(olivia, "", << alice, bob, agentEmail >>, <<>>, <<>>),
    request(agentEmail, "tenchars10", << alice, bob >>, <<>>, <<>>) }
  \cup { reply(from, SessionIds[1], NoHdr) : from \in {alice, bob} }

GateDecisions ==
  { Decision("ask_participant_availability", << alice, bob >>, TRUE),
    Decision("propose_time_to_organizer", <<>>, TRUE),
    Decision("no_action_needed", <<>>, FALSE) }

NextGate ==
  \/ Quiet /\ Receive(1, GatePayloads, MaxThread)
  \/ Fetch(1)
  \/ Track(1)
  \/ Act(1, GateDecisions)
  \/ Finalize(1)

SpecGate == Init /\ [][NextGate]_vars

(***************************************************************************)
(* SpecConc: handler runs that overlap; every step of one run may fall     *)
(* between two steps of the other.                                         *)
(***************************************************************************)
ConcPayloads ==
  { request(olivia, "", << alice, bob >>, <<>>, <<>>) }
  \cup { reply(from, SessionIds[1], NoHdr) : from \in {alice, bob} }

ConcDecisions == { Decision("propose_time_to_organizer", <<>>, TRUE) }

NextConc ==
  \E r \in Runs :
    \/ (Len(sessions) = 0 => Quiet /\ r = 1) /\ Receive(r, ConcPayloads, MaxThread)
    \/ Fetch(r)
    \/ Track(r)
    \/ Act(r, ConcDecisions)
    \/ Finalize(r)

SpecConc == Init /\ [][NextConc]_vars

(***************************************************************************)
(* SpecNudge: a request, the clock, and nudge sweeps, one handler at a     *)
(* time.  The sender of a request is its organizer, whose run does no      *)
(* participant tracking.                                                   *)
(***************************************************************************)
NudgePayloads ==
  { request(olivia, "", << alice, agentEmail >>, <<>>, <<>>),
    request(olivia, "", << agentEmail >>, <<>>, << alice, agentHashed >>),
    request(agentEmail, "tenchars10", << alice >>, <<>>, <<>>) }

NudgeDecisions ==
  { Decision("ask_participant_availability", << alice, agentHashed >>, TRUE) }

NextNudge ==
  \/ Quiet /\ Receive(1, NudgePayloads, MaxRequests)
  \/ Fetch(1)
  \/ Act(1, NudgeDecisions)
  \/ Finalize(1)
  \/ Quiet /\ SweepStart
  \/ SweepSession
  \/ Quiet /\ Tick

SpecNudge == InitAnyDefault /\ [][NextNudge]_vars

(***************************************************************************)
(* SpecRoundTrip: a request, the clock and nudge sweeps, then a reply to   *)
(* the reply address of an email the assistant sent.                       *)
(***************************************************************************)
\* MailboxHash as the provider extracts it: the tag of the address written to
mailboxHashOf(address) == address.t

\* every email handed to the provider by the runs and sweeps that returned
emailsOfVisits(visits) ==
  UNION { Range(visits[v].emails) : v \in DOMAIN visits }

emailsOfRecord(e) ==
  IF e.kind = "webhook" THEN Range(e.emails) ELSE emailsOfVisits(e.visits)

sentEmails == UNION { emailsOfRecord(log[k]) : k \in DOMAIN log }

\* the reply of from to an email: written to its Reply-To, in reply to its id
replyToEmail(m, from) ==
  Payload(from, mailboxHashOf(m.replyTo),
          Hdr(TRUE, "re-" \o from.l, "mail.io"), "pm-re-" \o from.l,
          Hdr(TRUE, m.messageId.loc, "mail.sched.io"), << m.replyTo >>, <<>>, <<>>)

RoundTripRequests == { request(olivia, "", << alice, agentEmail >>, <<>>, <<>>) }

RoundTripReplies == { replyToEmail(m, alice) : m \in { x \in sentEmails : x.ok } }

RoundTripDecisions == { Decision("ask_participant_availability", << alice >>, TRUE) }

NextRoundTrip ==
  \/ /\ Quiet
     /\ Receive(1, IF Len(sessions) = 0 THEN RoundTripRequests ELSE RoundTripReplies,
                MaxDeliveries)
  \/ Fetch(1)
  \/ Track(1)
  \/ Act(1, RoundTripDecisions)
  \/ Finalize(1)
  \/ Quiet /\ SweepStart
  \/ SweepSession
  \/ Quiet /\ Tick

SpecRoundTrip == InitAnyDefault /\ [][NextRoundTrip]_vars

(***************************************************************************)
(* Threading: one request whose Message-ID comes bracketed, bare or only   *)
(* from the provider, and whose References header lists up to              *)
(* MaxReferences ids, the triggering one included or not, once or twice.  *)
(***************************************************************************)
MaxReferences == 3

ThreadingIds ==
  { Hdr(TRUE, "a", "mail.io"), Hdr(FALSE, "a", "mail.io"),
    Hdr(TRUE, "b", "mail.io"), Hdr(TRUE, "pm-a", "") }

ThreadingReferences ==
  UNION { [1..n -> ThreadingIds] : n \in 0..MaxReferences }

ThreadingMessageIds ==
  { Hdr(TRUE, "a", "mail.io"), Hdr(FALSE, "a", "mail.io"), NoHdr }

ThreadingPayloads ==
  { withReferences(Payload(olivia, "", mid, "pm-a", NoHdr, << alice, bob, agentEmail >>,
                           <<>>, <<>>), refs) :
      mid \in ThreadingMessageIds, refs \in ThreadingReferences }

ThreadingDecisions ==
  { Decision("ask_participant_availability", << alice, bob >>, TRUE),
    Decision("send_final_confirmation", <<>>, TRUE) }

NextThreading ==
  \/ Quiet /\ Receive(1, ThreadingPayloads, MaxRequests)
  \/ Fetch(1)
  \/ Act(1, ThreadingDecisions)
  \/ Finalize(1)

SpecThreading == Init /\ [][NextThreading]_vars

(***************************************************************************)
(* Acknowledgement: every way a handler run can end.  Bodies the handler   *)
(* gives up on, store calls that answer with an error, rejected calls, a   *)
(* failing decision engine and failing sends.                              *)
(***************************************************************************)
AckPayloads ==
  { request(olivia, "", << alice, agentEmail >>, <<>>, <<>>),
    request(agentEmail, "", << alice >>, <<>>, <<>>),
    reply(alice, SessionIds[1], NoHdr) }

AckDecisions ==
  { Decision("ask_participant_availability", << alice >>, TRUE),
    Decision("propose_time_to_organizer", <<>>, TRUE),
    DecisionFailure }

NextAck ==
  \/ Quiet /\ Receive(1, AckPayloads, MaxThread)
  \/ Quiet /\ ReceiveStoreError(1, AckPayloads, MaxThread)
  \/ Quiet /\ Ignore(1, IgnoredBodies, MaxThread)
  \/ Fetch(1)
  \/ FetchStoreError(1)
  \/ Track(1)
  \/ TrackStoreError(1)
  \/ Act(1, AckDecisions)
  \/ ActStoreError(1, AckDecisions)
  \/ Finalize(1)
  \/ FinalizeStoreError(1)
  \/ Throw(1)

SpecAck == Init /\ [][NextAck]_vars

(***************************************************************************)
(* Recipients: the decision engine names the organizer, in either case,    *)
(* tracked participants and an address the session does not track.         *)
(***************************************************************************)
RecipientPayloads ==
  { request(olivia, "", << alice, bob, agentEmail >>, <<>>, <<>>),
    reply(olivia, SessionIds[1], NoHdr),
    reply(alice, SessionIds[1], NoHdr) }

RecipientDecisions ==
  { Decision(step, recipients, TRUE) :
      step \in {"ask_participant_availability", "propose_time_to_participant"},
      recipients \in { << olivia, alice >>, << oliviaUpper, bob >>, << olivia >>,
                       << carol >>, << alice, carol, olivia >> } }

NextRecipients ==
  \/ Quiet /\ Receive(1, RecipientPayloads, MaxDeliveries)
  \/ Fetch(1)
  \/ Track(1)
  \/ Act(1, RecipientDecisions)
  \/ Finalize(1)

SpecRecipients == Init /\ [][NextRecipients]_vars

(***************************************************************************)
(* Extraction: first messages with the To, Cc and body lists in several    *)
(* orders, with repeated addresses, the sender and the assistant's         *)
(* addresses among them.  Each creates a session.                          *)
(***************************************************************************)
ExtractTo ==
  { <<>>, << agentEmail >>, << alice, bob, agentEmail >>, << agentEmail, bob, alice >>,
    << alice, alice, agentHashed >>, << oliviaUpper, agentEmail >> }

ExtractCc == { <<>>, << carol >>, << alice >>, << olivia >> }

ExtractBody ==
  { <<>>, << carol, bob >>, << carol, carol >>, << agentHashed, oliviaUpper, carol >> }

ExtractPayloads ==
  { request(olivia, "", to, cc, body) :
      to \in ExtractTo, cc \in ExtractCc, body \in ExtractBody }

ExtractDecisions == { Decision("no_action_needed", <<>>, FALSE) }

NextExtract ==
  \/ Quiet /\ Receive(1, ExtractPayloads, MaxDeliveries)
  \/ Fetch(1)
  \/ Act(1, ExtractDecisions)
  \/ Finalize(1)

SpecExtract == Init /\ [][NextExtract]_vars

(***************************************************************************)
(* Unknown senders: carol, whom no session tracks, writes to the routing   *)
(* address of a session with no participant, or with its only participant *)
(* pending or received.                                                    *)
(***************************************************************************)
UnknownPayloads ==
  { request(olivia, "", << agentEmail >>, <<>>, <<>>),
    request(olivia, "", << alice, agentEmail >>, <<>>, <<>>),
    reply(alice, SessionIds[1], NoHdr),
    reply(carol, SessionIds[1], NoHdr) }

UnknownDecisions ==
  { Decision("no_action_needed", <<>>, FALSE),
    Decision("propose_time_to_organizer", <<>>, TRUE),
    Decision("send_final_confirmation", <<>>, TRUE) }

NextUnknown ==
  \/ Quiet /\ Receive(1, UnknownPayloads, MaxThread)
  \/ Fetch(1)
  \/ Track(1)
  \/ Act(1, UnknownDecisions)
  \/ Finalize(1)

SpecUnknown == Init /\ [][NextUnknown]_vars

(***************************************************************************)
(* The scenario of one meeting: olivia's request naming alice and bob, the *)
(* replies of the three, in any order, MaxScenario messages in all, with   *)
(* the decisions of the workflow among those the engine may return.        *)
(***************************************************************************)
MaxScenario == 4

ScenarioRequests == { request(olivia, "", << alice, bob, agentEmail >>, <<>>, <<>>) }

ScenarioReplies == { reply(from, SessionIds[1], NoHdr) : from \in {alice, bob, olivia} }

ScenarioDecisions ==
  { Decision("ask_participant_availability", << alice, bob >>, TRUE),
    Decision("propose_time_to_organizer", << olivia >>, TRUE),
    Decision("send_final_confirmation", << olivia, alice, bob >>, TRUE) }

NextScenario ==
  \/ /\ Quiet
     /\ Receive(1, IF Len(sessions) = 0 THEN ScenarioRequests ELSE ScenarioReplies,
                MaxScenario)
  \/ Fetch(1)
  \/ Track(1)
  \/ Act(1, ScenarioDecisions)
  \/ Finalize(1)

SpecScenario == Init /\ [][NextScenario]_vars

(***************************************************************************)
(* Nudge tracks: a session of two participants whose schema default puts   *)
(* it among the sessions the sweep reads, MaxTrackSweeps sweeps.           *)
(***************************************************************************)
MaxTrackSweeps == 4

TrackPayloads == { request(olivia, "", << alice, bob, agentEmail >>, <<>>, <<>>) }

TrackDecisions == { Decision("ask_participant_availability", << alice, bob >>, TRUE) }

InitTracks == InitStore /\ sessionStatusDefault = "pending_participant_response"

NextTracks ==
  \/ Quiet /\ Receive(1, TrackPayloads, MaxRequests)
  \/ Fetch(1)
  \/ Act(1, TrackDecisions)
  \/ Finalize(1)
  \/ Quiet /\ SweepStartUpTo(MaxTrackSweeps)
  \/ SweepSession
  \/ Quiet /\ Tick

SpecTracks == InitTracks /\ [][NextTracks]_vars

(***************************************************************************)
(* sendSchedulingEmail called on its own: every list of up to              *)
(* MaxRecipients recipients, either policy, every outcome of the provider. *)
(* The call and its result are appended to the log.                        *)
(***************************************************************************)
MaxRecipients == 3

MaxSendCalls == 1

SendRecipients ==
  UNION { [1..n -> {olivia, alice, bob}] : n \in 0..MaxRecipients }

CallSend(limit) ==
  /\ Quiet
  /\ Len(log) < limit
  /\ \E to \in SendRecipients, sendAsGroup \in BOOLEAN :
       \E oks \in [1..Len(to) -> BOOLEAN] :
         /\ outCount + Len(to) <= Len(OutIds)
         /\ LET res == sendSchedulingEmail(to, SessionIds[1], MsgId("req-olivia", "mail.io"),
                                           <<>>, sendAsGroup, oks, outCount)
            IN /\ log' = Append(log, [ kind |-> "send", to |-> to, sendAsGroup |-> sendAsGroup,
                                       emails |-> res.emails, messageId |-> res.messageId ])
               /\ outCount' = outCount + sentCount(res.emails)
  /\ UNCHANGED << sessions, messages, discarded, sessionStatusDefault, now, run, sweep,
                  delivered, sweeps >>

NextSend == CallSend(MaxSendCalls)

SpecSend == Init /\ [][NextSend]_vars

(***************************************************************************)
(* SpecOverlap: a session of two participants, the reply of one, the       *)
(* clock and MaxOverlapSweeps nudge sweeps; a handler run may fall between *)
(* the sweep's read of the sessions and its update, and a sweep between    *)
(* two steps of a run.                                                     *)
(***************************************************************************)
MaxOverlapSweeps == 2

OverlapReplies == { reply(alice, SessionIds[1], NoHdr) }

NextOverlap ==
  \/ /\ Len(sessions) = 0 => Quiet
     /\ Receive(1, IF Len(sessions) = 0 THEN TrackPayloads ELSE OverlapReplies,
                MaxDeliveries)
  \/ Fetch(1)
  \/ Track(1)
  \/ Act(1, TrackDecisions)
  \/ Finalize(1)
  \/ (Len(sessions) = 0 => Quiet) /\ SweepStartUpTo(MaxOverlapSweeps)
  \/ SweepSession
  \/ Quiet /\ Tick

SpecOverlap == InitTracks /\ [][NextOverlap]_vars

(***************************************************************************)
(* SpecInReplyTo: a request to two participants, then a message without    *)
(* routing token whose In-Reply-To names the request or one of the emails  *)
(* the assistant sent for it.                                              *)
(***************************************************************************)
InReplyToRequests == { request(olivia, "", << alice, bob, agentEmail >>, <<>>, <<>>) }

\* the Message-ID header of an email the provider accepted under the id n
sentMessageId(n) == Hdr(TRUE, OutIds[n], "mail.sched.io")

InReplyToHeaders ==
  { Hdr(TRUE, "req-olivia", "mail.io") } \cup { sentMessageId(n) : n \in 1..2 }

InReplyToReplies ==
  { reply(from, "", irt) : from \in {alice, bob}, irt \in InReplyToHeaders }

InReplyToDecisions ==
  { Decision("ask_participant_availability", << alice, bob >>, TRUE),
    Decision("no_action_needed", <<>>, FALSE) }

NextInReplyTo ==
  \/ /\ Quiet
     /\ Receive(1, IF Len(sessions) = 0 THEN InReplyToRequests ELSE InReplyToReplies,
                MaxDeliveries)
  \/ Fetch(1)
  \/ Track(1)
  \/ Act(1, InReplyToDecisions)
  \/ Finalize(1)

SpecInReplyTo == Init /\ [][NextInReplyTo]_vars

(***************************************************************************)
(* SpecReschedule: the state update the handler of part_002 makes on the   *)
(* router's intent, before the executor is called, for every intent,       *)
(* either kind of sender and every session status.  The inputs and the     *)
(* update are appended to the log.                                         *)
(***************************************************************************)
MaxRouted == 1

\* routerOutputSchema.intent
RouterIntents ==
  { "new_schedule_request", "provide_availability", "propose_alternative",
    "confirm_time", "request_clarification_query", "request_cancellation",
    "request_reschedule", "simple_reply", "unknown" }

RoutedStatuses ==
  { "pending_participant_response", "pending_organizer_confirmation", "confirmed",
    "error" }

\* whether sessionUpdateData gets confirmed_datetime = null
clearsConfirmedDatetime(intent, incomingMessageType, status) ==
  /\ intent \in {"request_cancellation", "request_reschedule"}
  /\ incomingMessageType = "human_participant"
  /\ intent = "request_reschedule" /\ status = "confirmed"

\* the router's intent is handled for a message of the given kind, the session
\* read with the given status and confirmed time
RouteIntent(limit) ==
  /\ Quiet
  /\ Len(log) < limit
  /\ \E intent \in RouterIntents, status \in RoutedStatuses :
       \E incomingMessageType \in {"human_organizer", "human_participant"} :
         \E confirmed_datetime \in {"null", "2025-06-01T10:00"} :
           log' = Append(log,
                    [ kind |-> "router", intent |-> intent, status |-> status,
                      incomingMessageType |-> incomingMessageType,
                      before |-> confirmed_datetime,
                      after |-> IF clearsConfirmedDatetime(intent, incomingMessageType, status)
                                THEN "null" ELSE confirmed_datetime ])
  /\ UNCHANGED << sessions, messages, discarded, sessionStatusDefault, now, outCount,
                  run, sweep, delivered, sweeps >>

NextReschedule == RouteIntent(MaxRouted)

SpecReschedule == Init /\ [][NextReschedule]_vars

(***************************************************************************)
(* SpecEscalation: the scheduler calls the sweep at a fixed interval       *)
(* longer than every threshold, every reminder is accepted by the          *)
(* provider, nobody replies; the organizer has the participants asked in   *)
(* one message or in two.  The handler's steps, the clock and the sweeps   *)
(* are never held back for ever; no message has to arrive.                 *)
(***************************************************************************)
MaxEscalationTime == 16

MaxEscalationSweeps == 4

\* minutes between two calls of the sweep
SweepInterval == ESCALATION_THRESHOLD_MINUTES + 1

EscalationRequests == { request(olivia, "", << alice, bob, agentEmail >>, <<>>, <<>>) }

EscalationFollowUps == { reply(olivia, SessionIds[1], NoHdr) }

EscalationDecisions ==
  { Decision("ask_participant_availability", << alice, bob >>, TRUE),
    Decision("ask_participant_availability", << alice >>, TRUE),
    Decision("ask_participant_availability", << bob >>, TRUE) }

sweepTimes == { log[k].t0 : k \in { j \in DOMAIN log : log[j].kind = "nudge" } }

\* the interval has elapsed since the last sweep, or since the start
sweepDue == \A t \in sweepTimes \cup {0} : now - t >= SweepInterval

\* the request arrives at the start, the follow-up in the minute of a sweep
ReceiveEscalation ==
  /\ Quiet
  /\ IF Len(sessions) = 0 THEN now = 0 ELSE now \in sweepTimes
  /\ Receive(1, IF Len(sessions) = 0 THEN EscalationRequests ELSE EscalationFollowUps,
             MaxDeliveries)

ActEscalation == ActStepWith(1, EscalationDecisions, TRUE, {TRUE})

SweepStartEscalation == Quiet /\ sweepDue /\ SweepStartUpTo(MaxEscalationSweeps)

TickEscalation == Quiet /\ ~sweepDue /\ TickUpTo(MaxEscalationTime)

NextEscalation ==
  \/ ReceiveEscalation
  \/ Fetch(1)
  \/ ActEscalation
  \/ Finalize(1)
  \/ SweepStartEscalation
  \/ SweepSessionWith({TRUE})
  \/ TickEscalation

FairEscalation ==
  /\ WF_vars(Fetch(1))
  /\ WF_vars(ActEscalation)
  /\ WF_vars(Finalize(1))
  /\ WF_vars(SweepStartEscalation)
  /\ WF_vars(SweepSessionWith({TRUE}))
  /\ WF_vars(TickEscalation)

\* the store gives session_status either of its defaults
InitEscalation == InitStore /\ sessionStatusDefault \in SessionStatusDefaults

SpecEscalation == InitEscalation /\ [][NextEscalation]_vars /\ FairEscalation

(***************************************************************************)
(* Properties.  A record of the log is a run or a sweep that has returned; *)
(* when nothing is in progress, the tables are as the last of them left    *)
(* them.                                                                   *)
(***************************************************************************)
Settled == Quiet /\ Len(log) > 0

isWebhook(e) == e.kind = "webhook"

hasRow(table, sid) == \E i \in DOMAIN table : table[i].session_id = sid

rowOf(table, sid) == table[CHOOSE i \in DOMAIN table : table[i].session_id = sid]

isTracked(details, a) ==
  \E i \in DOMAIN details : toLowerCase(details[i].email) = toLowerCase(a)

\* the rows of session_messages added since a run started
addedMessages(e) == SubSeq(messages, e.pre.nMessages + 1, Len(messages))

assistantMessages(ms) == SelectSeq(ms, LAMBDA m : m.message_type = "ai_agent")

\* C2's case: the sender is tracked and another tracked participant is outstanding
GateClosedCase(e) ==
  /\ isWebhook(e)
  /\ e.incomingMessageType # ""
  /\ isTracked(e.pd0, e.p.from)
  /\ \E j \in DOMAIN e.pd0 :
       /\ toLowerCase(e.pd0[j].email) # toLowerCase(e.p.from)
       /\ e.pd0[j].status # "received"

\* C2 (response gate closed): a tracked participant's reply handled while
\* another tracked participant is not yet received is persisted, marks the
\* sender received, calls no decision engine, sends no email and leaves the
\* session status as it was.
C2_ResponseGateClosed ==
  /\ \A r \in Runs : run[r].pc \in {"act", "final"} => ~GateClosedCase(run[r])
  /\ \A k \in DOMAIN log :
       LET e == log[k] IN
       GateClosedCase(e) =>
         /\ ~e.aiCalled
         /\ e.emails = <<>>
         /\ e.ack = "success_waiting_for_others"
         /\ (k = Len(log) /\ Quiet) =>
              /\ hasRow(e.pre.sessions, e.sessionId)
              /\ rowOf(sessions, e.sessionId).status
                   = rowOf(e.pre.sessions, e.sessionId).status
              /\ LET details == rowOf(sessions, e.sessionId).participant_status_details
                 IN \A i \in DOMAIN details :
                      toLowerCase(details[i].email) = toLowerCase(e.p.from)
                        => details[i].status = "received"
              /\ outCount = e.pre.outCount
              /\ Len(addedMessages(e)) = 1
              /\ addedMessages(e)[1].session_id = e.sessionId
              /\ addedMessages(e)[1].sender_email = e.p.from
              /\ addedMessages(e)[1].postmark_message_id = e.actualId

C2_Witness == Settled /\ GateClosedCase(log[Len(log)]) /\ log[Len(log)].gate = "closed"

\* C5's case: the sender is the assistant and the routing token is absent or
\* shorter than a session identifier can be
LoopCase(p) == toLowerCase(p.from) = agentEmail /\ (p.hash = "" \/ Len(p.hash) < 10)

OnlyAssistant(d) ==
  /\ ~d.failed
  /\ Len(d.recipients) > 0
  /\ \A i \in DOMAIN d.recipients : d.recipients[i] = agentEmail

\* C7 as stated (no-recipient safety for every next_step): recipients made of
\* the assistant's address alone result in zero emails sent.
C7_NoRecipientSafetyAnyStep ==
  \A k \in DOMAIN log :
    LET e == log[k] IN
    (isWebhook(e) /\ e.aiCalled /\ OnlyAssistant(e.aiDecision))
      => sentCount(e.emails) = 0

\* C7 as amended: for the steps whose recipients come from the decision engine
\* (ask_participant_availability, propose_time_to_participant) and the steps
\* without recipients (no_action_needed, error_cannot_schedule), recipients made
\* of the assistant's address alone result in no email, sent or attempted.
C7_NoRecipientSafety ==
  \A k \in DOMAIN log :
    LET e == log[k] IN
    ( /\ isWebhook(e) /\ e.aiCalled /\ OnlyAssistant(e.aiDecision)
      /\ e.aiDecision.next_step \in
           { "ask_participant_availability", "propose_time_to_participant",
             "no_action_needed", "error_cannot_schedule" } )
      => e.emails = <<>> /\ ~e.sendAttempted /\ ~e.aiSaved

C7_Witness ==
  \E k \in DOMAIN log :
    /\ isWebhook(log[k]) /\ log[k].aiCalled /\ OnlyAssistant(log[k].aiDecision)
    /\ log[k].aiDecision.next_step = "ask_participant_availability"
    /\ log[k].aiDecision.email_body
    /\ log[k].ack = "success"

\* C8 (idempotent re-delivery): the second handling of an identical payload
\* creates no session, persists no second copy of the message and sends no
\* email.
C8_IdempotentRedelivery ==
  \A j \in DOMAIN log : \A k \in DOMAIN log :
    (j < k /\ isWebhook(log[j]) /\ isWebhook(log[k]) /\ log[j].p = log[k].p)
      => /\ log[k].via # "new"
         /\ log[k].incomingMessageType = ""
         /\ sentCount(log[k].emails) = 0

\* C10 (send failure leaves no record): a run whose workflow send failed
\* persists no assistant message; a run whose send succeeded persists exactly
\* one, in the run's session, in reply to the inbound message it stored.
C10_SendRecord ==
  \A k \in DOMAIN log :
    LET e == log[k] IN
    (isWebhook(e) /\ e.sendAttempted) =>
      /\ sentCount(e.emails) = 0 => ~e.aiSaved
      /\ (k = Len(log) /\ Quiet) =>
           LET added == addedMessages(e)
               ai == assistantMessages(added)
           IN IF sentCount(e.emails) = 0
              THEN Len(ai) = 0
              ELSE /\ Len(ai) = 1
                   /\ ai[1].session_id = e.sessionId
                   /\ Len(added) = 2
                   /\ added[1].message_type # "ai_agent"
                   /\ added[1].session_id = e.sessionId
                   /\ added[1].sender_email = e.p.from
                   /\ ai[1].in_reply_to_message_id = added[1].postmark_message_id

C10_Witness ==
  \E j \in DOMAIN log : \E k \in DOMAIN log :
    /\ isWebhook(log[j]) /\ log[j].sendAttempted /\ sentCount(log[j].emails) = 0
    /\ isWebhook(log[k]) /\ log[k].sendAttempted /\ log[k].aiSaved

\* C1's case: the routing token names a session that existed when the run started
TokenCase(e) == isWebhook(e) /\ hasRow(e.pre.sessions, e.p.hash)

\* C1 (session resolution by routing token): a message whose MailboxHash is the
\* identifier of an existing session is attached to that session and to no
\* other, whatever its In-Reply-To header holds, and no session is created.
C1_TokenResolution ==
  /\ \A r \in Runs :
       (run[r].pc # "idle" /\ TokenCase(run[r]))
         => run[r].sessionId = run[r].p.hash /\ run[r].via = "hash"
  /\ \A k \in DOMAIN log :
       LET e == log[k] IN
       TokenCase(e) =>
         /\ e.sessionId = e.p.hash
         /\ e.via = "hash"
         /\ (k = Len(log) /\ Quiet) =>
              /\ Len(sessions) = Len(e.pre.sessions)
              /\ Len(addedMessages(e)) >= 1
              /\ \A i \in DOMAIN addedMessages(e) :
                   addedMessages(e)[i].session_id = e.p.hash

C1_Witness ==
  /\ Settled
  /\ TokenCase(log[Len(log)])
  /\ log[Len(log)].p.irt.present
  /\ lookupByInReplyTo(log[Len(log)].p.irt) \notin {NoSession, log[Len(log)].sessionId}

\* emails of a run accepted by the provider with a among their recipients
emailsTo(e, a) ==
  Cardinality({ k \in DOMAIN e.emails : e.emails[k].ok /\ a \in Range(e.emails[k].to) })

allSendsSucceed(e) == \A k \in DOMAIN e.emails : e.emails[k].ok

\* C3's case: runs a and b, one after the other, handle the replies of the two
\* participants of a session that awaited both
GateOpenedCase(a, b) ==
  /\ b = a + 1
  /\ isWebhook(log[a]) /\ isWebhook(log[b])
  /\ log[a].sessionId = log[b].sessionId
  /\ hasRow(log[a].pre.sessions, log[a].sessionId)
  /\ LET row == rowOf(log[a].pre.sessions, log[a].sessionId)
         details == row.participant_status_details
     IN /\ row.status = "pending_participant_response"
        /\ Len(details) = 2
        /\ \A i \in DOMAIN details : details[i].status # "received"
        /\ log[a].p.from = details[1].email
        /\ log[b].p.from = details[2].email
  /\ allSendsSucceed(log[a]) /\ allSendsSucceed(log[b])
  /\ log[b].aiCalled =>
       /\ log[b].aiDecision.next_step = "propose_time_to_organizer"
       /\ log[b].aiDecision.email_body

\* C3 (response gate opened): after A's reply and then B's reply are handled,
\* with propose_time_to_organizer decided and the sends succeeding, exactly one
\* email has gone to the organizer, in B's run, and the session status is
\* pending_organizer_confirmation.
C3_ResponseGateOpened ==
  \A a \in DOMAIN log : \A b \in DOMAIN log :
    GateOpenedCase(a, b) =>
      LET organizer == rowOf(log[a].pre.sessions, log[a].sessionId).organizer_email
      IN /\ emailsTo(log[a], organizer) = 0
         /\ emailsTo(log[b], organizer) = 1
         /\ (b = Len(log) /\ Quiet) =>
              rowOf(sessions, log[b].sessionId).status = "pending_organizer_confirmation"

\* C4's case: the last two runs returned handled replies from two different
\* participants of one session, both outstanding when the first of them
\* returned started, and every earlier run had returned before either started
ConcurrentRepliesCase(a, b) ==
  /\ Quiet
  /\ b = Len(log) /\ a = b - 1 /\ a >= 1
  /\ isWebhook(log[a]) /\ isWebhook(log[b])
  /\ log[a].sessionId = log[b].sessionId
  /\ log[a].pre.returned = a - 1
  /\ log[b].pre.returned >= a - 1
  /\ hasRow(log[a].pre.sessions, log[a].sessionId)
  /\ hasRow(log[b].pre.sessions, log[b].sessionId)
  /\ LET before == rowOf(log[a].pre.sessions, log[a].sessionId).participant_status_details
     IN /\ Len(before) = 2
        /\ \A i \in DOMAIN before : before[i].status # "received"
        /\ {log[a].p.from, log[b].p.from} = {before[1].email, before[2].email}
        /\ log[a].p.from # log[b].p.from
  /\ LET before == rowOf(log[b].pre.sessions, log[b].sessionId).participant_status_details
     IN \A i \in DOMAIN before :
          before[i].email = log[b].p.from => before[i].status # "received"

\* C4 (concurrent replies): however the runs for the replies of two participants
\* of a session interleave, after both both participants are received in the
\* stored participant status and exactly one of the runs passed the gate.
C4_ConcurrentReplies ==
  \A a \in DOMAIN log : \A b \in DOMAIN log :
    ConcurrentRepliesCase(a, b) =>
      /\ \A i \in DOMAIN rowOf(sessions, log[a].sessionId).participant_status_details :
           rowOf(sessions, log[a].sessionId).participant_status_details[i].status
             = "received"
      /\ (log[a].gate = "open") # (log[b].gate = "open")

isAssistantAddress(a) == isAgentBase(a) \/ isAgentHashed(a)

noneToAssistant(emails) ==
  \A k \in DOMAIN emails : \A a \in Range(emails[k].to) : ~isAssistantAddress(a)

\* C6 (no email to the assistant): no email handed to the provider, by a
\* workflow send of the webhook handler or by a reminder or an escalation of the
\* nudge sweep, has the assistant's address, bare or with a token, as recipient.
C6_NoEmailToAssistant ==
  /\ \A r \in Runs : noneToAssistant(run[r].emails)
  /\ \A v \in DOMAIN sweep.visits : noneToAssistant(sweep.visits[v].emails)
  /\ \A k \in DOMAIN log :
       IF isWebhook(log[k])
       THEN noneToAssistant(log[k].emails)
       ELSE \A v \in DOMAIN log[k].visits : noneToAssistant(log[k].visits[v].emails)

\* the successor of a nudge status
nudgeSuccessor(status) ==
  CASE status = "pending" -> "nudged_1"
    [] status = "nudged_1" -> "nudged_2"
    [] status = "nudged_2" -> "escalated"
    [] OTHER -> "none"

\* the sends of one visit made for the participant at position i
sendsFor(visit, i) ==
  SelectSeq(visit.emails,
            LAMBDA m : m.inReplyTo =
              Hdr(TRUE, "cron-nudge-" \o visit.session_id \o "-" \o visit.before[i].email.l,
                  visit.before[i].email.d))

visitKeepsChain(visit) ==
  /\ Len(visit.after) = Len(visit.before)
  /\ \A i \in DOMAIN visit.before :
       LET old == visit.before[i]
           new == visit.after[i]
           sends == sendsFor(visit, i)
       IN /\ new.email = old.email
          /\ new.status # old.status => new.status = nudgeSuccessor(old.status)
          /\ new # old => Len(sends) = 1 /\ sends[1].ok
          /\ (\A k \in DOMAIN sends : ~sends[k].ok) => new = old
          /\ Len(sends) <= 1

sentFor(e) ==
  IF isWebhook(e)
  THEN { << e.emails[i], e.sessionId >> : i \in DOMAIN e.emails }
  ELSE UNION { { << e.visits[v].emails[i], e.visits[v].session_id >> :
                   i \in DOMAIN e.visits[v].emails } : v \in DOMAIN e.visits }

isReplyTo(p, m) == p.to = << m.replyTo >> /\ p.hash = mailboxHashOf(m.replyTo)

\* C11 (round trip by routing token): every email sent for session S, by a
\* workflow send, a reminder or an escalation, has the reply address
\* localpart+S@domain, and a later inbound message delivered to that address is
\* resolved to S, by the routing token.
C11_RoundTrip ==
  /\ \A r \in Runs : \A i \in DOMAIN run[r].emails :
       run[r].emails[i].replyTo = Addr(agentEmail.l, run[r].sessionId, agentEmail.d)
  /\ \A k \in DOMAIN log : \A pair \in sentFor(log[k]) :
       /\ pair[1].replyTo = Addr(agentEmail.l, pair[2], agentEmail.d)
       /\ \A r \in Runs :
            (run[r].pc # "idle" /\ isReplyTo(run[r].p, pair[1]))
              => run[r].sessionId = pair[2] /\ run[r].via = "hash"
       /\ \A j \in DOMAIN log :
            (j > k /\ isWebhook(log[j]) /\ isReplyTo(log[j].p, pair[1]))
              => log[j].sessionId = pair[2] /\ log[j].via = "hash"

C11_Witness ==
  /\ Settled
  /\ isWebhook(log[Len(log)])
  /\ \E k \in DOMAIN log :
       /\ ~isWebhook(log[k])
       /\ \E pair \in sentFor(log[k]) :
            /\ pair[1].ok
            /\ pair[1].to = << olivia >>
            /\ isReplyTo(log[Len(log)].p, pair[1])
            /\ log[Len(log)].p.irt.loc = pair[1].messageId.loc
            /\ log[Len(log)].sessionId = pair[2]

(***************************************************************************)
(* C12.  Threading headers.                                                *)
(***************************************************************************)
occurrences(refs, id) == Cardinality({ i \in DOMAIN refs : refs[i] = id })

\* the headers of the emails of webhook run e, against the message that
\* triggered it and the References list that message carried
threadsOn(e) ==
  LET trigger == Hdr(TRUE, e.actualId.loc, e.actualId.dom)
      inherited == e.p.refs
  IN \A k \in DOMAIN e.emails :
       LET m == e.emails[k]
       IN /\ m.inReplyTo = trigger
          /\ SubSeq(m.references, 1, Len(inherited)) = inherited
          /\ \/ m.references = inherited
             \/ m.references = Append(inherited, trigger)
          /\ occurrences(m.references, trigger) >= 1
          /\ occurrences(inherited, trigger) = 0
               => m.references = Append(inherited, trigger)
          /\ occurrences(inherited, trigger) >= 1 => m.references = inherited
          /\ occurrences(inherited, trigger) <= 1
               => occurrences(m.references, trigger) = 1

\* C12: every email of a webhook run has the triggering message's id as its
\* In-Reply-To, and as its References the inherited list followed by the
\* triggering id, which is not appended again when the list already holds it:
\* the id appears exactly once whenever the inherited list holds it at most once.
C12_ThreadingHeaders ==
  /\ \A k \in DOMAIN log : isWebhook(log[k]) => threadsOn(log[k])
  /\ \A r \in Runs : run[r].pc = "final" => threadsOn(run[r])

\* a run answered a message whose References already held its id, ahead of
\* another id, and the email sent kept the list as it was
C12_Witness ==
  /\ Settled
  /\ LET e == log[Len(log)]
     IN /\ isWebhook(e)
        /\ Len(e.p.refs) = 2
        /\ e.p.refs[1] = Hdr(TRUE, e.actualId.loc, e.actualId.dom)
        /\ e.p.refs[2] # e.p.refs[1]
        /\ \E k \in DOMAIN e.emails :
             e.emails[k].ok /\ e.emails[k].references = e.p.refs

\* C12 as stated: the triggering id appears exactly once in the References of
\* every email, whatever list the triggering message carried.
C12_TriggerExactlyOnce ==
  \A k \in DOMAIN log :
    isWebhook(log[k]) =>
      \A i \in DOMAIN log[k].emails :
        /\ log[k].emails[i].inReplyTo = Hdr(TRUE, log[k].actualId.loc, log[k].actualId.dom)
        /\ occurrences(log[k].emails[i].references, log[k].emails[i].inReplyTo) = 1

(***************************************************************************)
(* C13.  Acknowledgement on every path.                                    *)
(***************************************************************************)
\* C13: every webhook run that has ended returned the 200 acknowledgement.
C13_AlwaysAcknowledged ==
  \A k \in DOMAIN log : isWebhook(log[k]) => log[k].code = "200"

(***************************************************************************)
(* C14.  Terminal states.                                                  *)
(***************************************************************************)
TerminalStatuses == { "confirmed", "cancelled", "error" }

\* C14: a step of a webhook run or of a nudge sweep leaves the status of every
\* session whose status is confirmed, cancelled or error as it is.
C14_TerminalAbsorbing ==
  [][ \A i \in DOMAIN sessions :
        sessions[i].status \in TerminalStatuses
          => sessions'[i].status = sessions[i].status ]_vars

(***************************************************************************)
(* C15.  Status transition table.                                          *)
(***************************************************************************)
StatusChangingSteps == NextSteps \ {"no_action_needed"}

statusAfter(step) ==
  IF step \in {"ask_participant_availability", "propose_time_to_participant"}
  THEN "pending_participant_response"
  ELSE IF step \in {"propose_time_to_organizer", "request_clarification"}
  THEN "pending_organizer_confirmation"
  ELSE IF step = "send_final_confirmation" THEN "confirmed"
  ELSE "error"

decidedRun(e) ==
  isWebhook(e) /\ e.ack = "success" /\ e.aiDecision.next_step \in StatusChangingSteps

\* C15: a webhook run whose decision is next_step = s writes the status the
\* table gives for s, and that is the session's stored status when it returns.
C15_TransitionTable ==
  \A k \in DOMAIN log :
    decidedRun(log[k]) =>
      /\ log[k].finalStatus = statusAfter(log[k].aiDecision.next_step)
      /\ Quiet /\ k = Len(log)
           => rowOf(sessions, log[k].sessionId).status
                = statusAfter(log[k].aiDecision.next_step)

\* a run decided request_clarification on a session waiting for participants
\* and left it waiting for the organizer
C15_Witness ==
  /\ Settled
  /\ LET e == log[Len(log)]
     IN /\ decidedRun(e)
        /\ e.aiDecision.next_step = "request_clarification"
        /\ e.status0 = "pending_participant_response"
        /\ rowOf(sessions, e.sessionId).status = "pending_organizer_confirmation"

(***************************************************************************)
(* C16, C17.  Who is emailed when the step addresses participants.         *)
(***************************************************************************)
asksParticipants(e) ==
  /\ e.aiCalled
  /\ e.aiDecision.next_step \in {"ask_participant_availability",
                                 "propose_time_to_participant"}

emailed(e) == UNION { Range(e.emails[k].to) : k \in DOMAIN e.emails }

organizerOf(e) == rowOf(sessions, e.sessionId).organizer_email

organizerNotEmailed(e) ==
  asksParticipants(e) =>
    \A a \in emailed(e) : toLowerCase(a) # toLowerCase(organizerOf(e))

C17_OnlyTrackedParticipants ==
  \A k \in DOMAIN log :
    isWebhook(log[k]) /\ asksParticipants(log[k]) =>
      \A a \in emailed(log[k]) :
        isTracked(rowOf(sessions, log[k].sessionId).participant_status_details, a)

(***************************************************************************)
(* C18, C19.  The participants of a new session.                           *)
(***************************************************************************)
createsSession(e) == isWebhook(e) /\ e.via = "new"

participantsOf(sid) ==
  LET details == rowOf(sessions, sid).participant_status_details
  IN { details[i].email : i \in DOMAIN details }

\* To and Cc without the sender and the assistant's two forms of address
expectedParticipants(p) ==
  { a \in Range(p.to) \cup Range(p.cc) :
      toLowerCase(a) # toLowerCase(p.from) /\ ~isAssistantAddress(a) }

extractedAsStated(e) ==
  createsSession(e) =>
    /\ expectedParticipants(e.p) # {} => participantsOf(e.sessionId) = expectedParticipants(e.p)
    /\ expectedParticipants(e.p) = {} => participantsOf(e.sessionId) \subseteq Range(e.p.body)

\* C18: the participants of a session a message creates are the To and Cc
\* addresses without the sender and without the assistant's bare and
\* routing-token addresses, whatever the order of the lists; the addresses of
\* the body are used only when that set is empty.
C18_ParticipantExtraction ==
  /\ \A k \in DOMAIN log : extractedAsStated(log[k])
  /\ \A r \in Runs : run[r].pc # "idle" => extractedAsStated(run[r])
  /\ \A j, k \in DOMAIN log :
       /\ createsSession(log[j]) /\ createsSession(log[k])
       /\ log[j].p.from = log[k].p.from
       /\ Range(log[j].p.to) \cup Range(log[j].p.cc)
            = Range(log[k].p.to) \cup Range(log[k].p.cc)
       /\ expectedParticipants(log[j].p) # {}
       => participantsOf(log[j].sessionId) = participantsOf(log[k].sessionId)

\* two sessions were created from the same addresses listed in different
\* orders, with a body that lists others, and track the same two participants
C18_Witness ==
  /\ Settled
  /\ Len(log) = 2
  /\ createsSession(log[1]) /\ createsSession(log[2])
  /\ log[1].p.to = << alice, bob, agentEmail >>
  /\ log[2].p.to = << agentEmail, bob, alice >>
  /\ log[1].p.cc = <<>> /\ log[2].p.cc = << alice >>
  /\ log[2].p.body = << carol, bob >>
  /\ participantsOf(log[1].sessionId) = { alice, bob }
  /\ participantsOf(log[2].sessionId) = { alice, bob }

\* C19: in every session the emails of participant_status_details are pairwise
\* distinct and none is the organizer's address.
C19_DistinctParticipants ==
  \A s \in DOMAIN sessions :
    LET details == sessions[s].participant_status_details
    IN /\ \A i, j \in DOMAIN details : i # j => details[i].email # details[j].email
       /\ \A i \in DOMAIN details :
            toLowerCase(details[i].email) # toLowerCase(sessions[s].organizer_email)

(***************************************************************************)
(* C20.  Session status against participant statuses.                      *)
(***************************************************************************)
Outstanding == { "pending", "nudged_1", "nudged_2" }

waitsOnOrganizer(s) == sessions[s].status = "pending_organizer_confirmation"

hasOutstanding(s) ==
  \E i \in DOMAIN sessions[s].participant_status_details :
    sessions[s].participant_status_details[i].status \in Outstanding

organizerStepDecided(sid) ==
  \E k \in DOMAIN log :
    /\ isWebhook(log[k]) /\ log[k].sessionId = sid /\ log[k].ack = "success"
    /\ log[k].aiDecision.next_step \in {"propose_time_to_organizer", "request_clarification"}

unknownSender(e) ==
  /\ isWebhook(e)
  /\ hasRow(e.pre.sessions, e.sessionId)
  /\ toLowerCase(e.p.from) # toLowerCase(rowOf(e.pre.sessions, e.sessionId).organizer_email)
  /\ ~isTracked(rowOf(e.pre.sessions, e.sessionId).participant_status_details, e.p.from)

sessionAsBefore(e) ==
  LET before == rowOf(e.pre.sessions, e.sessionId)
      after == rowOf(sessions, e.sessionId)
  IN /\ after.status = before.status
     /\ after.participant_status_details = before.participant_status_details

\* C21: a run for a message of an unknown sender leaves the session's status
\* and participant_status_details as they were, while it runs and when it has
\* returned, and the message is saved.
C21_UnknownSenderFrame ==
  /\ \A k \in DOMAIN log :
       unknownSender(log[k]) /\ Quiet /\ k = Len(log)
         => /\ sessionAsBefore(log[k])
            /\ \E i \in DOMAIN addedMessages(log[k]) :
                 addedMessages(log[k])[i].sender_email = log[k].p.from
  /\ \A r \in Runs :
       run[r].pc \in {"track", "act", "final"} /\ unknownSender(run[r])
         => sessionAsBefore(run[r])

(***************************************************************************)
(* C22.  The scenario from request to confirmation.                        *)
(***************************************************************************)
\* the sessions table when the k-th run of the log had returned (runs are
\* handled one at a time)
storeAfter(k) == IF k < Len(log) THEN log[k + 1].pre.sessions ELSE sessions

returned(k) == k < Len(log) \/ (k = Len(log) /\ Quiet)

statusIn(details, a) ==
  { details[i].status : i \in { j \in DOMAIN details : details[j].email = a } }

decided(e, step) ==
  isWebhook(e) /\ e.aiCalled /\ e.aiDecision.next_step = step /\ allSendsSucceed(e)

requested(k) ==
  /\ returned(k)
  /\ log[k].p = request(olivia, "", << alice, bob, agentEmail >>, <<>>, <<>>)
  /\ decided(log[k], "ask_participant_availability")

firstReply(k) ==
  /\ requested(k - 1) /\ returned(k)
  /\ log[k].p \in { reply(alice, SessionIds[1], NoHdr), reply(bob, SessionIds[1], NoHdr) }

secondReply(k) ==
  /\ firstReply(k - 1) /\ returned(k)
  /\ log[k].p \in { reply(alice, SessionIds[1], NoHdr), reply(bob, SessionIds[1], NoHdr) }
  /\ log[k].p # log[k - 1].p
  /\ decided(log[k], "propose_time_to_organizer")

confirmation(k) ==
  /\ secondReply(k - 1) /\ returned(k)
  /\ log[k].p = reply(olivia, SessionIds[1], NoHdr)
  /\ decided(log[k], "send_final_confirmation")

\* C22: the request creates one session in pending_participant_response that
\* tracks alice and bob and sends each her or his own request; the first reply
\* marks its sender received and leaves the status; the second reply brings one
\* email to olivia; olivia's confirmation brings exactly one email to olivia,
\* alice and bob together and the status confirmed.
C22_Scenario ==
  /\ Len(log) >= 1 /\ requested(1) =>
       /\ Len(storeAfter(1)) = 1
       /\ storeAfter(1)[1].status = "pending_participant_response"
       /\ storeAfter(1)[1].organizer_email = olivia
       /\ [ i \in DOMAIN storeAfter(1)[1].participant_status_details |->
              storeAfter(1)[1].participant_status_details[i].email ] \in
            { << alice, bob >>, << bob, alice >> }
       /\ \A i \in DOMAIN storeAfter(1)[1].participant_status_details :
            storeAfter(1)[1].participant_status_details[i].status = "pending"
       /\ [ i \in DOMAIN log[1].emails |-> log[1].emails[i].to ] \in
            { << << alice >>, << bob >> >>, << << bob >>, << alice >> >> }
  /\ Len(log) >= 2 /\ firstReply(2) =>
       /\ Len(storeAfter(2)) = 1
       /\ storeAfter(2)[1].status = "pending_participant_response"
       /\ statusIn(storeAfter(2)[1].participant_status_details, log[2].p.from) = {"received"}
       /\ \A a \in {alice, bob} \ {log[2].p.from} :
            statusIn(storeAfter(2)[1].participant_status_details, a) = {"pending"}
       /\ log[2].emails = <<>>
       /\ ~log[2].aiCalled
  /\ Len(log) >= 3 /\ secondReply(3) =>
       /\ Len(storeAfter(3)) = 1
       /\ Len(log[3].emails) = 1
       /\ log[3].emails[1].to = << olivia >>
       /\ \A a \in {alice, bob} :
            statusIn(storeAfter(3)[1].participant_status_details, a) = {"received"}
  /\ Len(log) >= 4 /\ confirmation(4) =>
       /\ Len(storeAfter(4)) = 1
       /\ Len(log[4].emails) = 1
       /\ Len(log[4].emails[1].to) = 3
       /\ Range(log[4].emails[1].to) = { olivia, alice, bob }
       /\ storeAfter(4)[1].status = "confirmed"

\* the four runs of the scenario have returned, bob having replied first
C22_Witness ==
  /\ Settled /\ Len(log) = 4 /\ confirmation(4)
  /\ log[2].p.from = bob
  /\ sessions[1].status = "confirmed"
  /\ log[4].emails[1].ok

(***************************************************************************)
(* C23.  Independent nudge tracks.                                         *)
(***************************************************************************)
thresholdOf(status) ==
  CASE status = "pending" -> NUDGE1_THRESHOLD_MINUTES
    [] status = "nudged_1" -> NUDGE2_THRESHOLD_MINUTES
    [] OTHER -> ESCALATION_THRESHOLD_MINUTES

\* the participant has been asked, has not answered, and its threshold has elapsed
dueAt(participant, t) ==
  /\ participant.status \in {"pending", "nudged_1", "nudged_2"}
  /\ participant.last_request_sent_at # NoTime
  /\ t - participant.last_request_sent_at >= thresholdOf(participant.status)

\* a session the sweeps have had in hand: its session_status is the stage the
\* sweep reads or the one the sweep writes
inNudgeProcess(row) ==
  row.session_status \in {"pending_participant_response", "escalated_to_organizer"}

advancedBy(e, row, i) ==
  \E v \in DOMAIN e.visits :
    /\ e.visits[v].session_id = row.session_id
    /\ Len(sendsFor(e.visits[v], i)) = 1
    /\ sendsFor(e.visits[v], i)[1].ok
         => e.visits[v].after[i].status = nudgeSuccessor(row.participant_status_details[i].status)

\* C23: a sweep sends the reminder of every participant that is due when it
\* starts, and advances the participant if the send succeeds, whatever the
\* statuses of the other participants of the session are.
C23_IndependentTracks ==
  \A k \in DOMAIN log :
    ~isWebhook(log[k]) =>
      \A s \in DOMAIN log[k].pre.sessions :
        inNudgeProcess(log[k].pre.sessions[s]) =>
          \A i \in DOMAIN log[k].pre.sessions[s].participant_status_details :
            dueAt(log[k].pre.sessions[s].participant_status_details[i], log[k].t0)
              => advancedBy(log[k], log[k].pre.sessions[s], i)

(***************************************************************************)
(* C24.  Two sweeps in succession.                                         *)
(***************************************************************************)
isSweep(e) == e.kind = "nudge"

\* sweeps k and k + 1 ran one after the other at the same minute, nothing else
\* in between, and both have returned
twoSweeps(k) ==
  /\ k + 1 \in DOMAIN log /\ returned(k + 1)
  /\ isSweep(log[k]) /\ isSweep(log[k + 1])
  /\ log[k].t0 = log[k + 1].t0
  /\ log[k + 1].pre.returned = k

secondSweepIdle(k) ==
  /\ emailsOfRecord(log[k + 1]) = {}
  /\ storeAfter(k + 1) = log[k + 1].pre.sessions
  /\ (k + 1 = Len(log) =>
        /\ outCount = log[k + 1].pre.outCount
        /\ Len(messages) = log[k + 1].pre.nMessages)

isSend(e) == e.kind = "send"

\* C25: with two recipients or more, a call without sendAsGroup issues one
\* send to each recipient alone, and a call with sendAsGroup one send to all;
\* a call with no recipient issues no send and returns the failure signal.
C25_RecipientGroupPolicy ==
  \A k \in DOMAIN log :
    isSend(log[k]) =>
      LET e == log[k]
          n == Len(e.to)
      IN /\ n >= 2 /\ ~e.sendAsGroup
              => /\ Len(e.emails) = n
                 /\ \A i \in 1..n : e.emails[i].to = << e.to[i] >>
         /\ n >= 2 /\ e.sendAsGroup
              => Len(e.emails) = 1 /\ e.emails[1].to = e.to
         /\ n = 0 => e.emails = <<>> /\ e.messageId = NoId

(***************************************************************************)
(* C26.  Failure of the decision engine.                                   *)
(***************************************************************************)
engineFailed(e) == isWebhook(e) /\ e.aiCalled /\ e.aiDecision.failed

\* C26: a run whose decision-engine call fails sends nothing, acknowledges,
\* keeps the inbound message it saved, and leaves the session row as a run
\* deciding no_action_needed leaves it: with the status that decision writes
\* and the participant statuses the run had stored.
C26_EngineFailureAsNoAction ==
  \A k \in DOMAIN log :
    engineFailed(log[k]) =>
      /\ log[k].emails = <<>>
      /\ log[k].code = "200"
      /\ Quiet /\ k = Len(log) =>
           /\ Len(addedMessages(log[k])) = 1
           /\ addedMessages(log[k])[1].sender_email = log[k].p.from
           /\ outCount = log[k].pre.outCount
           /\ rowOf(sessions, log[k].sessionId).participant_status_details
                = log[k].participantDetails
           /\ rowOf(sessions, log[k].sessionId).status
                = nextSessionStatus("no_action_needed", log[k].status0)

(***************************************************************************)
(* C27.  Ignorable input.                                                  *)
(***************************************************************************)
ignorable(e) ==
  /\ isWebhook(e)
  /\ \/ e.body = "unparseable"
     \/ e.body \in {"no sender", "object"} /\ e.p.from = NoAddr

FallbackCase(e) ==
  /\ isWebhook(e) /\ e.body = "object" /\ e.pre # NoSnapshot
  /\ ~loopGuardDiscards(e.p)
  /\ ~(mailboxHashLooksValid(e.p.hash) /\ hasRow(e.pre.sessions, e.p.hash))

\* the messages stored when the run started that its cleaned In-Reply-To names
matchedByInReplyTo(e) ==
  IF ~e.p.irt.present THEN {}
  ELSE { i \in 1..e.pre.nMessages :
           messages[i].postmark_message_id = inReplyToClean(e.p.irt) }

\* the rows the k-th run added to session_messages
addedBy(k) ==
  SubSeq(messages, log[k].pre.nMessages + 1,
         IF k < Len(log) THEN log[k + 1].pre.nMessages ELSE Len(messages))

inbound(rows) == SelectSeq(rows, LAMBDA m : m.message_type # "ai_agent")

\* C28: without a resolving routing token, a message whose cleaned In-Reply-To
\* matches a stored message joins that message's session and no session is
\* created; when In-Reply-To matches nothing either, exactly one session is
\* created, with the sender as organizer; every run stores its message once,
\* in the one session it identified.
C28_FallbackChain ==
  \A k \in DOMAIN log :
    LET e == log[k] IN
    (k < Len(log) \/ Quiet) =>
      /\ FallbackCase(e) =>
           IF matchedByInReplyTo(e) # {}
           THEN /\ e.via = "irt"
                /\ \A i \in matchedByInReplyTo(e) : messages[i].session_id = e.sessionId
                /\ Len(storeAfter(k)) = Len(e.pre.sessions)
           ELSE /\ e.via = "new"
                /\ Len(storeAfter(k)) = Len(e.pre.sessions) + 1
                /\ ~hasRow(e.pre.sessions, e.sessionId)
                /\ hasRow(storeAfter(k), e.sessionId)
                /\ rowOf(storeAfter(k), e.sessionId).organizer_email = e.p.from
      /\ (isWebhook(e) /\ e.via # "") =>
           /\ Len(inbound(addedBy(k))) = 1
           /\ inbound(addedBy(k))[1].session_id = e.sessionId
           /\ inbound(addedBy(k))[1].sender_email = e.p.from
           /\ \A i \in DOMAIN addedBy(k) : addedBy(k)[i].session_id = e.sessionId

\* one run joined a session through In-Reply-To although its token named no
\* session, and a later run, whose token and In-Reply-To matched nothing,
\* created the second session
C28_Witness ==
  /\ Quiet
  /\ \E j \in DOMAIN log : \E k \in DOMAIN log :
       /\ j < k
       /\ FallbackCase(log[j]) /\ log[j].via = "irt" /\ log[j].p.hash # ""
       /\ FallbackCase(log[k]) /\ log[k].via = "new"
       /\ log[k].p.hash # "" /\ log[k].p.irt.present
       /\ Len(sessions) = 2

(***************************************************************************)
(* C29.  Receipt supersedes reminders, a sweep overlapping a handler run.  *)
(***************************************************************************)
\* the step is the sweep's handling of one session it read
sweepHandlesSession == sweep.pc = "process" /\ sweep' # sweep

\* C29: a participant whose stored status is received, which only a webhook
\* run stores, keeps it through every step of a nudge sweep, whenever the
\* sweep read the session.
C29_ReceiptSupersedesReminders ==
  [][ sweepHandlesSession =>
        \A s \in DOMAIN sessions :
          \A i \in DOMAIN sessions[s].participant_status_details :
            sessions[s].participant_status_details[i].status = "received"
              => sessions'[s].participant_status_details[i].status = "received" ]_vars

(***************************************************************************)
(* C30.  Escalation and its send.                                          *)
(***************************************************************************)
\* the visit's update wrote session_status = escalated_to_organizer
wroteEscalated(visit) == visit.detailsUpdated /\ visit.sessionEscalated

\* the visit sent an escalation email to the organizer, the provider accepted
\* it, and the participant it is about was stored as escalated
escalatedWithSend(visit, organizer) ==
  \E i \in DOMAIN visit.before :
    /\ visit.before[i].status = "nudged_2"
    /\ visit.after[i].status = "escalated"
    /\ \E m \in DOMAIN visit.emails :
         /\ visit.emails[m].ok
         /\ visit.emails[m].to = << organizer >>
         /\ visit.emails[m].inReplyTo.loc =
              "cron-nudge-" \o visit.session_id \o "-" \o visit.before[i].email.l

\* C30: a sweep writes session status escalated_to_organizer for a session
\* only if, handling that session, it sent an escalation email to the
\* organizer successfully and stored the participant concerned as escalated.
C30_EscalationWithItsSend ==
  \A k \in DOMAIN log :
    isSweep(log[k]) =>
      \A v \in DOMAIN log[k].visits :
        wroteEscalated(log[k].visits[v]) =>
          escalatedWithSend(log[k].visits[v],
                            rowOf(sessions, log[k].visits[v].session_id).organizer_email)

(***************************************************************************)
(* C31.  Sweep coverage.                                                   *)
(***************************************************************************)
\* the participant is pending and its request is at least T1 old at t
firstReminderDue(participant, t) ==
  /\ participant.status = "pending"
  /\ participant.last_request_sent_at # NoTime
  /\ t - participant.last_request_sent_at >= NUDGE1_THRESHOLD_MINUTES

\* the sweep handled the session and attempted a send for participant i
reminderAttempted(e, row, i) ==
  \E v \in DOMAIN e.visits :
    /\ e.visits[v].session_id = row.session_id
    /\ Len(sendsFor(e.visits[v], i)) = 1

\* C31: a sweep selects every session whose status, as the webhook handler
\* stored it, is pending_participant_response, and attempts the first reminder
\* of every pending participant of it whose request is at least T1 old.
C31_SweepCoverage ==
  \A k \in DOMAIN log :
    isSweep(log[k]) =>
      \A s \in DOMAIN log[k].pre.sessions :
        log[k].pre.sessions[s].status = "pending_participant_response" =>
          \A i \in DOMAIN log[k].pre.sessions[s].participant_status_details :
            firstReminderDue(log[k].pre.sessions[s].participant_status_details[i], log[k].t0)
              => reminderAttempted(log[k], log[k].pre.sessions[s], i)

(***************************************************************************)
(* C32.  In-Reply-To round trip.                                           *)
(***************************************************************************)
\* a run past the loop guard whose message has no routing token
untokened(e) == isWebhook(e) /\ e.p.hash = "" /\ ~loopGuardDiscards(e.p)

\* C32: a message without routing token whose In-Reply-To is the Message-ID
\* of an inbound message saved in session S, or of an email sent for S, is
\* resolved to S.
C32_InReplyToRoundTrip ==
  \A k \in DOMAIN log : \A j \in DOMAIN log :
    (k < j /\ untokened(log[j]) /\ log[j].p.irt.present) =>
      /\ (isWebhook(log[k]) /\ log[k].incomingMessageType # ""
            /\ log[j].p.irt = log[k].p.mid)
           => log[j].sessionId = log[k].sessionId
      /\ \A pair \in sentFor(log[k]) :
           (pair[1].ok /\ log[j].p.irt.br /\ log[j].p.irt.loc = pair[1].messageId.loc)
             => log[j].sessionId = pair[2]

(***************************************************************************)
(* C33.  The frame of no_action_needed.                                    *)
(***************************************************************************)
\* run r is at its final session write, having decided no_action_needed
finalWriteOfNoAction(r) ==
  /\ run[r].pc = "final"
  /\ run[r].aiDecision.next_step = "no_action_needed"
  /\ run'[r].pc = "idle"

\* C33: a run that decided no_action_needed has sent no email, and its final
\* session write leaves the status of the session as the store held it just
\* before that write.
C33_NoActionFrame ==
  [][ \A r \in Runs :
        finalWriteOfNoAction(r) =>
          /\ run[r].emails = <<>>
          /\ rowOf(sessions', run[r].sessionId).status
               = rowOf(sessions, run[r].sessionId).status ]_vars

(***************************************************************************)
(* C34.  Nudge 1 and the organizer.                                        *)
(***************************************************************************)
\* the visit sent the first reminder of the participant at position i
firstReminderSent(visit, i) ==
  /\ visit.before[i].status = "pending"
  /\ Len(sendsFor(visit, i)) = 1
  /\ sendsFor(visit, i)[1].ok

emailsOfSweep(e) == UNION { Range(e.visits[v].emails) : v \in DOMAIN e.visits }

\* C34: a sweep that sends a first reminder to a participant of a session
\* also sends an email to the organizer of that session.
C34_OrganizerNotifiedOfNudge1 ==
  \A k \in DOMAIN log :
    isSweep(log[k]) =>
      \A v \in DOMAIN log[k].visits :
        \A i \in DOMAIN log[k].visits[v].before :
          firstReminderSent(log[k].visits[v], i) =>
            \E m \in emailsOfSweep(log[k]) :
              rowOf(log[k].pre.sessions, log[k].visits[v].session_id).organizer_email
                \in Range(m.to)

(***************************************************************************)
(* C35.  Reschedule of a confirmed meeting.                                *)
(***************************************************************************)
isRouted(e) == e.kind = "router"

\* C35: when the router's intent is request_reschedule and the session is
\* confirmed, confirmed_datetime is cleared, whether the message is the
\* organizer's or a participant's.
C35_RescheduleClearsConfirmedTime ==
  \A k \in DOMAIN log :
    (isRouted(log[k]) /\ log[k].intent = "request_reschedule"
       /\ log[k].status = "confirmed")
      => log[k].after = "null"

(***************************************************************************)
(* C36.  Status and the email it stands for.                               *)
(***************************************************************************)
EmailingSteps == StatusChangingSteps \ {"error_cannot_schedule"}

\* the run's final write changed the status read at its start, on account of
\* a next_step that calls for an email
advancedByStep(e) ==
  /\ isWebhook(e) /\ e.ack = "success" /\ e.aiCalled
  /\ e.aiDecision.next_step \in EmailingSteps
  /\ e.finalStatus = statusAfter(e.aiDecision.next_step)
  /\ e.finalStatus # e.status0

\* C36: a run that changes the status to confirmed, to
\* pending_organizer_confirmation or to pending_participant_response on
\* account of next_step has had an email accepted by the provider.
C36_StatusOnlyWithEmail ==
  \A k \in DOMAIN log :
    advancedByStep(log[k]) => sentCount(log[k].emails) >= 1

(***************************************************************************)
(* C37.  The request timestamp.                                            *)
(***************************************************************************)
\* the run set or refreshed last_request_sent_at of the participant at i
stampedBy(e, i) ==
  e.participantDetails[i].last_request_sent_at # e.pd0[i].last_request_sent_at

\* C37: a webhook run sets last_request_sent_at of a participant only if an
\* availability or proposal email of that run to that participant was
\* accepted by the provider.
C37_TimestampOnlyWithSend ==
  \A k \in DOMAIN log :
    isWebhook(log[k]) =>
      \A i \in DOMAIN log[k].pd0 :
        stampedBy(log[k], i) =>
          /\ log[k].aiDecision.next_step
               \in {"ask_participant_availability", "propose_time_to_participant"}
          /\ emailsTo(log[k], log[k].pd0[i].email) >= 1

(***************************************************************************)
(* C38.  Loop guard and resolver.                                          *)
(***************************************************************************)
fromAssistant(e) == isWebhook(e) /\ e.body = "object" /\ toLowerCase(e.p.from) = agentEmail

quarantined(e) == e.ack = "discarded_agent_loop_detected"

\* C38: a message from the assistant's own address is quarantined or attached
\* to the existing session its routing token names; it creates no session and
\* is not resolved through In-Reply-To.
C38_GuardAndResolverAgree ==
  /\ \A r \in Runs :
       (run[r].pc # "idle" /\ fromAssistant(run[r]))
         => /\ run[r].via = "hash"
            /\ run[r].sessionId = run[r].p.hash
            /\ hasRow(run[r].pre.sessions, run[r].p.hash)
  /\ \A k \in DOMAIN log :
       fromAssistant(log[k]) =>
         \/ quarantined(log[k])
         \/ /\ log[k].via = "hash"
            /\ log[k].sessionId = log[k].p.hash
            /\ hasRow(log[k].pre.sessions, log[k].p.hash)

(***************************************************************************)
(* C39.  The recipients on record.                                         *)
(***************************************************************************)
\* C39: when the send of a run reported success and the assistant message was
\* saved, every recipient the record lists was sent the email; when the send
\* reported failure, no recipient was.
C39_RecordedRecipientsSent ==
  \A k \in DOMAIN log :
    (isWebhook(log[k]) /\ log[k].sendAttempted) =>
      /\ (log[k].outgoingMessageId # NoId /\ log[k].aiSaved)
           => \A a \in Range(log[k].finalRecipients) : emailsTo(log[k], a) >= 1
      /\ log[k].outgoingMessageId = NoId => sentCount(log[k].emails) = 0

(***************************************************************************)
(* C40.  Eventual escalation.                                              *)
(***************************************************************************)
entryOf(details, a) == details[CHOOSE i \in DOMAIN details : details[i].email = a]

\* run k sent participant a an availability or proposal request, the last one
requestRun(k, a) ==
  /\ isWebhook(log[k])
  /\ log[k].aiDecision.next_step
       \in {"ask_participant_availability", "propose_time_to_participant"}
  /\ emailsTo(log[k], a) >= 1
  /\ \A j \in DOMAIN log :
       (j > k /\ isWebhook(log[j])) => emailsTo(log[j], a) = 0

\* three sweeps have returned since the request of run k to a, each more than
\* the longest threshold after the one before, the first as long after the
\* request
sweptThrice(k, a) ==
  \E j1 \in DOMAIN log : \E j2 \in DOMAIN log : \E j3 \in DOMAIN log :
    /\ k < j1 /\ j1 < j2 /\ j2 < j3
    /\ isSweep(log[j1]) /\ isSweep(log[j2]) /\ isSweep(log[j3])
    /\ log[j1].t0 - entryOf(log[k].participantDetails, a).last_request_sent_at
         > ESCALATION_THRESHOLD_MINUTES
    /\ log[j2].t0 - log[j1].t0 > ESCALATION_THRESHOLD_MINUTES
    /\ log[j3].t0 - log[j2].t0 > ESCALATION_THRESHOLD_MINUTES

\* the case of the claim for participant a: a request was sent, nobody has
\* replied, every reminder went out, the session's status is
\* pending_participant_response, and the sweeps have come three times
escalationDue(a) ==
  /\ Quiet
  /\ \A j \in DOMAIN log :
       /\ isWebhook(log[j]) => log[j].incomingMessageType # "human_participant"
       /\ isSweep(log[j]) => \A m \in emailsOfSweep(log[j]) : m.ok
  /\ \E k \in DOMAIN log :
       /\ requestRun(k, a)
       /\ sweptThrice(k, a)
       /\ rowOf(sessions, log[k].sessionId).status = "pending_participant_response"

\* a is stored as escalated and an escalation email about a reached the organizer
escalatedAndNotified(a) ==
  \E s \in DOMAIN sessions :
    /\ \E i \in DOMAIN sessions[s].participant_status_details :
         /\ sessions[s].participant_status_details[i].email = a
         /\ sessions[s].participant_status_details[i].status = "escalated"
    /\ \E k \in DOMAIN log :
         /\ isSweep(log[k])
         /\ \E m \in emailsOfSweep(log[k]) :
              /\ m.ok
              /\ m.to = << sessions[s].organizer_email >>
              /\ m.inReplyTo.loc = "cron-nudge-" \o sessions[s].session_id \o "-" \o a.l

\* C40: with sweeps coming at intervals longer than the thresholds, all sends
\* succeeding and no reply arriving, every participant of a
\* pending_participant_response session who was sent a request is eventually
\* stored as escalated, with the organizer notified about it.
C40_EventualEscalation ==
  \A a \in {alice, bob} : escalationDue(a) ~> escalatedAndNotified(a)

====
